---- MODULE Spec2Model ----
(***************************************************************************)
(* The turn engine of the autonomous multithreaded Mind: run_mind and its  *)
(* run-state memos, the two in-memory copies of the global state, the      *)
(* event store, the event feed's batch scan, the extraction of the model  *)
(* output, the ordering, rendering and editing of goals and the file      *)
(* names of timestamps.                                                    *)
(*                                                                         *)
(* Strings that the code compares or rewrites character by character       *)
(* (timestamps, file names) are sequences of character codes.  The model   *)
(* output is a sequence of tokens: the four delimiter tags, a newline and  *)
(* pieces of other text.                                                   *)
(*                                                                         *)
(* Reading conventions: ItemId(x) is the cast its annotation intends;      *)
(* set_global_state called by add_goal is the function of that name in     *)
(* autonomous_mind/config.py; Goals is systems/goal/goals.py; run_mind's   *)
(* parent_goal_id argument to Feed.format is dropped; Feed reads the       *)
(* event files with systems/helpers.read_event and the event classes of    *)
(* schema.py; no agent conversation is opened (opened_agent_id is None).   *)
(* The run-state file is read back as it was written: ruamel.yaml's        *)
(* round-trip loader keeps the order and the key types of a mapping.  The  *)
(* turn engine reads a later clock value at every get_timestamp; the run   *)
(* of save_items on its own also admits two reads of the same value.       *)
(***************************************************************************)
EXTENDS Integers, Sequences, FiniteSets, TLC

VARIABLES
    clock,      \* wall clock, in ticks of one microsecond-unit
    gsFile,     \* data/global_state.yaml
    runFile,    \* data/run_state/current.yaml
    archives,   \* the other files of data/run_state
    eventFiles, \* data/events
    goalFiles,  \* data/goals
    pc,         \* position of the driver process in run_mind
    cfg,        \* config.GLOBAL_STATE of the process
    gs,         \* global_state.mapping of the process
    loc,        \* local variables of run_mind that outlive a step
    hist,       \* history of the current turn (observation only)
    crashes,    \* kills, and restarts after a raise, so far
    text,       \* input of the extraction run
    extracted,  \* result of the extraction run
    feedIn,     \* input of the feed scan run
    feedOut,    \* result of the feed scan run
    fnIn,       \* arguments of a helper function run on its own
    fnOut       \* what the helper function returned

vars == <<clock, gsFile, runFile, archives, eventFiles, goalFiles, pc, cfg, gs,
          loc, hist, crashes, text, extracted, feedIn, feedOut, fnIn, fnOut>>

-----------------------------------------------------------------------------
(* Bounds of the model *)

MaxTurns == 2
MaxCrashes == 1
MaxCalls == 2
MaxTextLen == 6
MaxFeedTurns == 3
UsecPerSec == 4

-----------------------------------------------------------------------------
(* Sequences *)

RECURSIVE Flatten(_)
Flatten(ss) == IF ss = <<>> THEN <<>> ELSE Head(ss) \o Flatten(Tail(ss))

SeqsUpTo(S, n) == UNION {[1..k -> S] : k \in 0..n}

Range(s) == {s[i] : i \in DOMAIN s}

\* Lexicographic order of two sequences of character codes (str.__lt__).
RECURSIVE LexLess(_, _)
LexLess(a, b) ==
    IF b = <<>> THEN FALSE
    ELSE IF a = <<>> THEN TRUE
    ELSE IF Head(a) # Head(b) THEN Head(a) < Head(b)
    ELSE LexLess(Tail(a), Tail(b))

-----------------------------------------------------------------------------
(* Timestamps and file names, as character codes *)

\* Character codes of the characters the code tests or replaces.
Ch == [dash |-> 45, dot |-> 46, zero |-> 48, colon |-> 58, T |-> 84, Z |-> 90,
       under |-> 95]

YamlSuffix == <<46, 121, 97, 109, 108>>

Digit(n) == Ch.zero + n

\* datetime.now().isoformat() + "Z": the fraction is left out at a whole second.
IsoFormat(tick) ==
    LET sec == tick \div UsecPerSec
        usec == tick % UsecPerSec
    IN  <<Digit(0), Ch.dash, Digit(0), Ch.T, Digit(sec \div 100), Ch.colon,
          Digit((sec \div 10) % 10), Ch.colon, Digit(sec % 10)>>
        \o (IF usec = 0 THEN <<>> ELSE <<Ch.dot, Digit(usec)>>)

get_timestamp(tick) == IsoFormat(tick) \o <<Ch.Z>>

\* fromisoformat, then strftime("%Y-%m-%dT%H:%M:%S.%f") + "Z": always a fraction.
format_timestamp(ts) ==
    IF \E i \in DOMAIN ts : ts[i] = Ch.dot THEN ts
    ELSE SubSeq(ts, 1, Len(ts) - 1) \o <<Ch.dot, Digit(0), Ch.Z>>

ReplaceChar(c) ==
    IF c = Ch.colon \/ c = Ch.dot THEN <<Ch.dash>>
    ELSE IF c = Ch.T THEN <<Ch.under, Ch.T>>
    ELSE <<c>>

timestamp_to_filename(ts) == Flatten([i \in DOMAIN ts |-> ReplaceChar(ts[i])])

ItemFile(ts) == timestamp_to_filename(ts) \o YamlSuffix

-----------------------------------------------------------------------------
(* Extraction of delimited blocks from the model output *)

FR_OPEN == "<feed-review>"
FR_CLOSE == "</feed-review>"
SC_OPEN == "<system-function-calls>"
SC_CLOSE == "</system-function-calls>"
NL == "\n"

IsSpace(tok) == tok = NL

RECURSIVE LStrip(_)
LStrip(s) == IF s # <<>> /\ IsSpace(Head(s)) THEN LStrip(Tail(s)) ELSE s

RECURSIVE RStrip(_)
RStrip(s) ==
    IF s # <<>> /\ IsSpace(s[Len(s)]) THEN RStrip(SubSeq(s, 1, Len(s) - 1)) ELSE s

Strip(s) == RStrip(LStrip(s))

\* Least index >= k at which tok stands in s, or 0.
RECURSIVE Find(_, _, _)
Find(s, tok, k) ==
    IF k > Len(s) THEN 0 ELSE IF s[k] = tok THEN k ELSE Find(s, tok, k + 1)

\* Least index >= k at which the start tag stands followed by a newline, with
\* the end tag somewhere after the newline; 0 when there is none.
RECURSIVE FindStart(_, _, _, _)
FindStart(s, open, close, k) ==
    IF k + 1 > Len(s) THEN 0
    ELSE IF s[k] = open /\ s[k + 1] = NL /\ Find(s, close, k + 2) # 0 THEN k
    ELSE FindStart(s, open, close, k + 1)

\* re.findall(start + "\n(.*?)" + end, text, re.DOTALL), each match stripped.
RECURSIVE FindAll(_, _, _, _)
FindAll(s, open, close, k) ==
    LET i == FindStart(s, open, close, k)
        j == Find(s, close, i + 2)
    IN  IF i = 0 THEN <<>>
        ELSE <<Strip(SubSeq(s, i + 2, j - 1))>> \o FindAll(s, open, close, j + 1)

extract_blocks(s, open, close) == FindAll(s, open, close, 1)

AllowMultipleDefault == TRUE

\* unpack_block: the error carries the number of blocks found.
unpack_block(found, allow_multiple) ==
    IF found = <<>> \/ (Len(found) > 1 /\ ~allow_multiple)
    THEN [ok |-> FALSE, num_blocks_found |-> Len(found), block |-> <<>>]
    ELSE [ok |-> TRUE, num_blocks_found |-> Len(found), block |-> found[Len(found)]]

extract_and_unpack(s, open, close) ==
    unpack_block(extract_blocks(s, open, close), AllowMultipleDefault)

\* extract_output_sections: the feed review first; its error ends the call.
extract_output_sections(s) ==
    LET fr == extract_and_unpack(s, FR_OPEN, FR_CLOSE)
        sc == extract_and_unpack(s, SC_OPEN, SC_CLOSE)
    IN  IF ~fr.ok
        THEN [ok |-> FALSE, tag |-> FR_OPEN, num_blocks_found |-> fr.num_blocks_found,
              feed_review |-> <<>>, calls |-> <<>>]
        ELSE IF ~sc.ok
        THEN [ok |-> FALSE, tag |-> SC_OPEN, num_blocks_found |-> sc.num_blocks_found,
              feed_review |-> <<>>, calls |-> <<>>]
        ELSE [ok |-> TRUE, tag |-> "", num_blocks_found |-> 1,
              feed_review |-> fr.block, calls |-> sc.block]

-----------------------------------------------------------------------------
(* Items and the item store *)

NoId == 0

\* One record shape for the three event classes of schema.py; a field an
\* event class does not have holds NoId or "".
FunctionCallEvent(id, ts, batch, goal, summary, content) ==
    [type |-> "function_call", id |-> id, batch_number |-> batch, goal_id |-> goal,
     timestamp |-> ts, summary |-> summary, content |-> content, success |-> 0,
     function_call_id |-> NoId]

\* A result event that does not name its call.
CallResultEventUnlinked(id, ts, batch, goal, call_id, content) ==
    [type |-> "call_result", id |-> id, batch_number |-> batch, goal_id |-> goal,
     timestamp |-> ts, summary |-> "", content |-> content, success |-> 0,
     function_call_id |-> NoId]

CallResultEvent(id, ts, batch, goal, call_id, content) ==
    [type |-> "call_result", id |-> id, batch_number |-> batch, goal_id |-> goal,
     timestamp |-> ts, summary |-> "", content |-> content, success |-> 0,
     function_call_id |-> call_id]

NotificationEvent(id, ts, batch, content) ==
    [type |-> "notification", id |-> id, batch_number |-> batch, goal_id |-> NoId,
     timestamp |-> ts, summary |-> "", content |-> content, success |-> 0,
     function_call_id |-> NoId]

Goal(id, ts, batch, summary) ==
    [id |-> id, batch_number |-> batch, parent_goal_id |-> NoId, timestamp |-> ts,
     summary |-> summary]

IsCall(e) == e.type = "function_call"

\* A directory is a set of [name, item]; a write replaces the file of that name.
WriteFile(dir, name, item) ==
    {f \in dir : f.name # name} \cup {[name |-> name, item |-> item]}

\* save_items: one file per item, named after the item's timestamp.
RECURSIVE save_items(_, _)
save_items(items, dir) ==
    IF items = <<>> THEN dir
    ELSE save_items(Tail(items),
                    WriteFile(dir, ItemFile(Head(items).timestamp), Head(items)))

\* sorted(directory.iterdir())
RECURSIVE SortedFiles(_)
SortedFiles(dir) ==
    IF dir = {} THEN <<>>
    ELSE LET first == CHOOSE f \in dir : \A g \in dir : ~LexLess(g.name, f.name)
         IN  <<first>> \o SortedFiles(dir \ {first})

\* read_event: from_mapping puts the timestamp through format_timestamp.
read_event(f) == [f.item EXCEPT !.timestamp = format_timestamp(@)]

-----------------------------------------------------------------------------
(* The event feed *)

\* Feed.call_event_batch: newest first, each event put in front, until
\* action_number FunctionCallEvents have been seen.
RECURSIVE ScanBack(_, _, _, _, _)
ScanBack(files, k, events, action_count, action_number) ==
    IF k = 0 THEN events
    ELSE LET event == read_event(files[k])
             count == IF IsCall(event) THEN action_count + 1 ELSE action_count
         IN  IF count = action_number THEN <<event>> \o events
             ELSE ScanBack(files, k - 1, <<event>> \o events, count, action_number)

call_event_batch(dir, action_number) ==
    LET files == SortedFiles(dir)
    IN  ScanBack(files, Len(files), <<>>, 0, action_number)

SelectCalls(events) == SelectSeq(events, IsCall)

NotCall(e) == ~IsCall(e)

SelectOthers(events) == SelectSeq(events, NotCall)

\* count_tokens of a rendering, one unit per rendered event.
count_tokens(n_events) == n_events

\* feed.max_recent_tokens of the configuration file, in the unit of count_tokens:
\* a batch of MaxCalls calls, their results and a notification is over it.
MAX_RECENT_FEED_TOKENS == 4

\* A Feed.format that raises for a focused goal only and returns what it has
\* when the text is over budget.
RECURSIVE FormatTruncates(_, _, _, _)
FormatTruncates(files, k, seen, focused_goal) ==
    IF k = 0 THEN FALSE
    ELSE focused_goal # NoId

\* Feed.format either returns a text or raises: with a focused goal at the
\* first event read, or when the text up to a FunctionCallEvent is over budget.
RECURSIVE FormatRaises(_, _, _, _)
FormatRaises(files, k, seen, focused_goal) ==
    IF k = 0 THEN FALSE
    ELSE IF focused_goal # NoId THEN TRUE
    ELSE IF IsCall(read_event(files[k]))
             /\ count_tokens(seen + 1) > MAX_RECENT_FEED_TOKENS THEN TRUE
    ELSE FormatRaises(files, k - 1, seen + 1, focused_goal)

feed_format_raises(dir, focused_goal) ==
    LET files == SortedFiles(dir)
    IN  FormatRaises(files, Len(files), 0, focused_goal)

\* Feed.format with what it returns: the events of the text, oldest first, each
\* with the way its content is rendered.  repr(event) gives the content in full.
RECURSIVE FormatScan(_, _, _, _, _)
FormatScan(files, k, current_action, recent_events, focused_goal) ==
    IF k = 0 THEN [raised |-> FALSE, why |-> "", events |-> recent_events]
    ELSE IF focused_goal # NoId
    THEN [raised |-> TRUE, why |-> "filtering", events |-> <<>>]
    ELSE LET event == read_event(files[k])
             current == <<[event |-> event, content |-> "full"]>> \o current_action
         IN  IF ~IsCall(event)
             THEN FormatScan(files, k - 1, current, recent_events, focused_goal)
             ELSE IF count_tokens(Len(current \o recent_events)) > MAX_RECENT_FEED_TOKENS
             THEN [raised |-> TRUE, why |-> "rewind", events |-> <<>>]
             ELSE FormatScan(files, k - 1, <<>>, current \o recent_events, focused_goal)

feed_format(dir, focused_goal) ==
    LET files == SortedFiles(dir)
    IN  FormatScan(files, Len(files), <<>>, <<>>, focused_goal)

-----------------------------------------------------------------------------
(* The global state: one file, two in-memory copies *)

InitialGlobalState == [action_batch_number |-> 1, last_id |-> 0, focused_goal_id |-> NoId]

\* config.set_global_state and GlobalState.set_value alike: set the key in the
\* copy at hand and write that whole copy to the file.
set_global_state(copy, key, value) == [copy EXCEPT ![key] = value]

\* generate_id: config.last_id() + 1, stored through config.update_last_id.
generate_id(copy) == copy.last_id + 1

\* The copy after n calls of generate_id.
AfterIds(copy, n) == set_global_state(copy, "last_id", copy.last_id + n)

-----------------------------------------------------------------------------
(* The run state *)

NoReview == [new_events |-> {}, action_batch_outcomes |-> {}]

NoOutput == [text |-> <<>>, review |-> NoReview, calls |-> <<>>]

\* RunState.load of a missing file: {}.  keys are the keys the file holds.
NoRun ==
    [exists |-> FALSE, keys |-> {}, new_messages |-> 0, notifications_saved |-> FALSE,
     messages_updated |-> FALSE, output |-> NoOutput, events_updated |-> FALSE,
     action_event |-> <<>>, call_result |-> <<>>, call_result_event |-> <<>>,
     events_saved |-> FALSE, action_number_incremented |-> FALSE,
     finalized_at |-> <<>>]

\* RunState.set_and_save: nothing is done when the value is the one stored.
set_and_save(rs, key, value) ==
    IF key \in rs.keys /\ rs[key] = value THEN rs
    ELSE [rs EXCEPT ![key] = value, !.keys = @ \cup {key}, !.exists = TRUE]

\* FunctionCallEvent.from_mapping rewrites the timestamp inside the mapping it is
\* given, which is the one held by the run state: the next save writes it so.
FromMappingInPlace(rs) ==
    [rs EXCEPT !.action_event =
        [i \in DOMAIN @ |-> [@[i] EXCEPT !.timestamp = format_timestamp(@)]]]

set_and_save_late(rs, key, value) ==
    IF key \in rs.keys /\ rs[key] = value THEN rs
    ELSE set_and_save(FromMappingInPlace(rs), key, value)

\* A memo test that takes a stored output for missing.
TruthyButOutput(rs, key) ==
    /\ key \in rs.keys
    /\ CASE key = "new_messages" -> rs.new_messages # 0
         [] key = "output" -> FALSE
         [] key \in {"action_event", "call_result", "call_result_event", "finalized_at"}
              -> rs[key] # <<>>
         [] OTHER -> rs[key]

\* Python truth of a stored memo (x or f()).
Truthy(rs, key) ==
    /\ key \in rs.keys
    /\ CASE key = "new_messages" -> rs.new_messages # 0
         [] key = "output" -> rs.output.text # <<>>
         [] key \in {"action_event", "call_result", "call_result_event", "finalized_at"}
              -> rs[key] # <<>>
         [] OTHER -> rs[key]

-----------------------------------------------------------------------------
(* The model output and its parsing *)

CallKinds ==
    {"add_goal", "sleep", "unknown_system", "unknown_function", "raises", "unimplemented"}

Raising == {"unknown_system", "unknown_function", "raises", "unimplemented"}

\* The call lists the model may request: whatever follows a call that raises
\* is never called, so such a call is the last of its list.
CallLists ==
    {c \in SeqsUpTo(CallKinds, MaxCalls) :
        \A i \in DOMAIN c : c[i] \in Raising => i = Len(c)}

GoodText == <<FR_OPEN, NL, "R", NL, FR_CLOSE, "x", SC_OPEN, NL, "C", NL, SC_CLOSE>>

TwoReviewsText ==
    <<FR_OPEN, NL, "x", FR_CLOSE, FR_OPEN, NL, "R", FR_CLOSE, SC_OPEN, NL, "C", SC_CLOSE>>

NoReviewText == <<"x", SC_OPEN, NL, "C", NL, SC_CLOSE>>

BadYamlText == <<FR_OPEN, NL, "x", NL, FR_CLOSE, SC_OPEN, NL, "C", NL, SC_CLOSE>>

\* A review with a summary for every event of the batch that is no call, and
\* an outcome for every call.
ReviewAll(batch) ==
    [new_events |->
        {[event_id |-> batch[i].id, summary |-> "s"] : i \in {j \in DOMAIN batch : ~IsCall(batch[j])}},
     action_batch_outcomes |->
        {[function_call_id |-> batch[i].id, action_success |-> 1] :
            i \in {j \in DOMAIN batch : IsCall(batch[j])}}]

\* The same review with every call judged a failure.
ReviewFailure(batch) ==
    [ReviewAll(batch) EXCEPT !.action_batch_outcomes =
        {[o EXCEPT !.action_success = -1] : o \in @}]

\* What the model may answer when it is shown the feed with this batch.  The
\* tokens "R" and "C" of the text stand for the YAML of review and calls.
Outputs(batch) ==
    {[text |-> GoodText, review |-> r, calls |-> c] :
        r \in (IF batch = <<>> THEN {NoReview} ELSE {ReviewAll(batch), ReviewFailure(batch), NoReview}),
        c \in CallLists}
    \cup {[text |-> t, review |-> ReviewAll(batch), calls |-> <<"sleep">>] :
            t \in {TwoReviewsText, NoReviewText, BadYamlText}}
    \cup {NoOutput}

\* extract_output: the sections, then from_yaml_str of each; either can fail.
extract_output(out) ==
    LET sections == extract_output_sections(out.text)
    IN  IF ~sections.ok THEN [ok |-> FALSE, why |-> "extraction"]
        ELSE IF sections.feed_review # <<"R">> \/ sections.calls # <<"C">>
        THEN [ok |-> FALSE, why |-> "parsing"]
        ELSE [ok |-> TRUE, why |-> ""]

-----------------------------------------------------------------------------
(* update_new_events *)

ReviewSummary(review, id) ==
    IF \E r \in review.new_events : r.event_id = id
    THEN (CHOOSE r \in review.new_events : r.event_id = id).summary
    ELSE ""

ReviewSuccess(review, id, old) ==
    IF \E o \in review.action_batch_outcomes :
            o.function_call_id = id /\ o.action_success \in {-1, 1}
    THEN (CHOOSE o \in review.action_batch_outcomes :
            o.function_call_id = id /\ o.action_success \in {-1, 1}).action_success
    ELSE old

\* The events as update_new_events saves them: calls first, then the others.
update_new_events(last_function_calls, events_since_calls, review) ==
    [i \in DOMAIN last_function_calls |->
        [last_function_calls[i] EXCEPT
            !.success = ReviewSuccess(review, last_function_calls[i].id, @)]]
    \o [i \in DOMAIN events_since_calls |->
        [events_since_calls[i] EXCEPT
            !.summary = ReviewSummary(review, events_since_calls[i].id)]]

FileNames(items) == {ItemFile(items[i].timestamp) : i \in DOMAIN items}

-----------------------------------------------------------------------------
(* History of the current turn: written by the actions, read by no guard *)

Snapshot == [events |-> eventFiles, goals |-> goalFiles, gs |-> gsFile]

NoError == [type |-> "", message |-> "", cause |-> ""]

NewHist ==
    [last |-> "running", failure |-> "", start |-> Snapshot, msgs |-> Snapshot,
     downloads |-> 0, queries |-> 0, invoked |-> [i \in 1..MaxCalls |-> 0],
     returned |-> [i \in 1..MaxCalls |-> <<>>],
     saves |-> 0, increments |-> 0, reexec |-> {}, written |-> {}, rewritten |-> {},
     backfilled |-> {}, record |-> NoRun, name |-> <<>>, kills |-> 0, failures |-> 0,
     gap_kills |-> 0, kill_results |-> -1, error |-> NoError, save_kills |-> 0,
     before_save |-> {}, save_list |-> <<>>, save_written |-> 0, stuck |-> FALSE]

Wrote(h, names) ==
    [h EXCEPT !.rewritten = @ \cup (names \cap h.written), !.written = @ \cup names]

\* A step is executed although the run-state file holds its memo.
Redone(h, key) ==
    IF key \in runFile.keys THEN [h EXCEPT !.reexec = @ \cup {key}] ELSE h

-----------------------------------------------------------------------------
(* run_mind, one action per persisted step *)

NoLoc == [batch |-> <<>>, archive_name |-> <<>>]

Running == pc \notin {"idle", "failed"}

Untouched == UNCHANGED <<text, extracted, feedIn, feedOut, fnIn, fnOut>>

Fail(why) ==
    /\ pc' = "failed"
    /\ hist' = [hist EXCEPT !.last = "failed", !.failure = why, !.failures = @ + 1]

\* The process starts: both copies of the global state are loaded from the file.
Start ==
    /\ \/ pc = "idle" /\ crashes' = crashes
       \/ pc = "failed" /\ crashes < MaxCrashes /\ crashes' = crashes + 1
    /\ Cardinality(archives) < MaxTurns
    /\ pc' = "messages"
    /\ cfg' = gsFile
    /\ gs' = gsFile
    /\ hist' = IF runFile.exists THEN [hist EXCEPT !.last = "running", !.failure = "", !.error = NoError]
               ELSE NewHist
    /\ loc' = NoLoc
    /\ UNCHANGED <<clock, gsFile, runFile, archives, eventFiles, goalFiles>>
    /\ Untouched

\* The process is killed.
Crash ==
    /\ Running
    /\ crashes < MaxCrashes
    /\ crashes' = crashes + 1
    /\ pc' = "idle"
    /\ hist' = [hist EXCEPT !.last = "killed", !.kills = @ + 1,
                            !.gap_kills = IF pc = "increment_memo" THEN @ + 1 ELSE @,
                            !.kill_results = IF pc = "calls" THEN Len(runFile.call_result)
                                             ELSE @]
    /\ loc' = NoLoc
    /\ UNCHANGED <<clock, gsFile, runFile, archives, eventFiles, goalFiles, cfg, gs>>
    /\ Untouched

\* run_mind, line 799: messages_updated is stored, update_messages is skipped.
MessagesSkip ==
    /\ pc = "messages"
    /\ Truthy(runFile, "messages_updated")
    /\ pc' = "output"
    /\ UNCHANGED <<clock, gsFile, runFile, archives, eventFiles, goalFiles, cfg, gs,
                   loc, hist, crashes>>
    /\ Untouched

\* update_messages, line 779, with a stored count that is not empty.
MessagesStored ==
    /\ pc = "messages"
    /\ ~Truthy(runFile, "messages_updated")
    /\ Truthy(runFile, "new_messages")
    /\ pc' = "notify"
    /\ UNCHANGED <<clock, gsFile, runFile, archives, eventFiles, goalFiles, cfg, gs,
                   loc, hist, crashes>>
    /\ Untouched

\* update_messages, line 779: download_new_messages and the memo of its result
\* (0 for no new message, {}).
MessagesDownload ==
    /\ pc = "messages"
    /\ ~Truthy(runFile, "messages_updated")
    /\ ~Truthy(runFile, "new_messages")
    /\ \E count \in {0, 1} :
        runFile' = set_and_save(runFile, "new_messages", count)
    /\ hist' = [Redone(hist, "new_messages") EXCEPT !.downloads = @ + 1]
    /\ pc' = "notify"
    /\ UNCHANGED <<clock, gsFile, archives, eventFiles, goalFiles, cfg, gs, loc, crashes>>
    /\ Untouched

\* update_messages, line 782, without new messages.
NotifyNone ==
    /\ pc = "notify"
    /\ runFile.new_messages = 0
    /\ pc' = "messages_done"
    /\ UNCHANGED <<clock, gsFile, runFile, archives, eventFiles, goalFiles, cfg, gs,
                   loc, hist, crashes>>
    /\ Untouched

\* A notification that carries the current batch number.
new_messages_notification_current(id, timestamp) ==
    NotificationEvent(id, timestamp, gs.action_batch_number, <<"new_messages", 0>>)

\* new_messages_notification: the batch number is the one before the current.
new_messages_notification(id, timestamp) ==
    NotificationEvent(id, timestamp, gs.action_batch_number - 1, <<"new_messages", 0>>)

\* update_messages, lines 783-786: the notification is built (an id, a
\* timestamp) and saved unless notifications_saved is stored.
Notify ==
    /\ pc = "notify"
    /\ runFile.new_messages # 0
    /\ LET event == new_messages_notification(generate_id(cfg), get_timestamp(clock))
           save == ~Truthy(runFile, "notifications_saved")
       IN  /\ cfg' = AfterIds(cfg, 1)
           /\ gsFile' = cfg'
           /\ clock' = clock + 1
           /\ eventFiles' = IF save THEN save_items(<<event>>, eventFiles) ELSE eventFiles
           /\ runFile' = set_and_save(runFile, "notifications_saved", TRUE)
           /\ hist' = IF save THEN Wrote(hist, FileNames(<<event>>)) ELSE hist
    /\ pc' = "messages_done"
    /\ UNCHANGED <<archives, goalFiles, gs, loc, crashes>>
    /\ Untouched

\* run_mind, line 799: the memo of update_messages.
MessagesDone ==
    /\ pc = "messages_done"
    /\ runFile' = set_and_save(runFile, "messages_updated", TRUE)
    /\ hist' = [hist EXCEPT !.msgs = Snapshot]
    /\ pc' = "output"
    /\ UNCHANGED <<clock, gsFile, archives, eventFiles, goalFiles, cfg, gs, loc, crashes>>
    /\ Untouched

\* run_mind, line 809, with a stored output that is not empty.
OutputStored ==
    /\ pc = "output"
    /\ Truthy(runFile, "output")
    /\ pc' = "extract"
    /\ UNCHANGED <<clock, gsFile, runFile, archives, eventFiles, goalFiles, cfg, gs,
                   loc, hist, crashes>>
    /\ Untouched

\* run_mind, lines 810-814: Feed.format raises.
OutputFeedRaises ==
    /\ pc = "output"
    /\ ~Truthy(runFile, "output")
    /\ feed_format_raises(eventFiles, cfg.focused_goal_id)
    /\ Fail("feed")
    /\ UNCHANGED <<clock, gsFile, runFile, archives, eventFiles, goalFiles, cfg, gs,
                   loc, crashes>>
    /\ Untouched

\* A query step that draws an id for the output before the output is parsed.
OutputQueryDrawingId ==
    /\ pc = "output"
    /\ ~Truthy(runFile, "output")
    /\ ~feed_format_raises(eventFiles, cfg.focused_goal_id)
    /\ \E out \in Outputs(call_event_batch(eventFiles, 1)) :
        runFile' = set_and_save(runFile, "output", out)
    /\ cfg' = AfterIds(cfg, 1)
    /\ gsFile' = cfg'
    /\ hist' = [Redone(hist, "output") EXCEPT !.queries = @ + 1]
    /\ pc' = "extract"
    /\ UNCHANGED <<clock, archives, eventFiles, goalFiles, gs, loc, crashes>>
    /\ Untouched

\* run_mind, lines 809-820: the model is queried and its output stored.
OutputQuery ==
    /\ pc = "output"
    /\ ~Truthy(runFile, "output")
    /\ ~feed_format_raises(eventFiles, cfg.focused_goal_id)
    /\ \E out \in Outputs(call_event_batch(eventFiles, 1)) :
        runFile' = set_and_save(runFile, "output", out)
    /\ hist' = [Redone(hist, "output") EXCEPT !.queries = @ + 1]
    /\ pc' = "extract"
    /\ UNCHANGED <<clock, gsFile, archives, eventFiles, goalFiles, cfg, gs, loc, crashes>>
    /\ Untouched

\* run_mind, lines 828-835: extract_output raises.
ExtractFails ==
    /\ pc = "extract"
    /\ ~extract_output(runFile.output).ok
    /\ pc' = "failed"
    /\ hist' = [hist EXCEPT !.last = "failed",
                            !.failure = extract_output(runFile.output).why,
                            !.failures = @ + 1,
                            !.stuck = @ \/ runFile.output.text # <<>>]
    /\ UNCHANGED <<clock, gsFile, runFile, archives, eventFiles, goalFiles, cfg, gs,
                   loc, crashes>>
    /\ Untouched

\* run_mind, lines 821-831: the batch is read and the output extracted.
Extract ==
    /\ pc = "extract"
    /\ extract_output(runFile.output).ok
    /\ loc' = [loc EXCEPT !.batch = call_event_batch(eventFiles, 1)]
    /\ pc' = "update"
    /\ UNCHANGED <<clock, gsFile, runFile, archives, eventFiles, goalFiles, cfg, gs,
                   hist, crashes>>
    /\ Untouched

\* run_mind, lines 839-842, when there is nothing to update or it is stored.
UpdateSkip ==
    /\ pc = "update"
    /\ SelectCalls(loc.batch) = <<>> \/ Truthy(runFile, "events_updated")
    /\ pc' = "call_events"
    /\ UNCHANGED <<clock, gsFile, runFile, archives, eventFiles, goalFiles, cfg, gs,
                   loc, hist, crashes>>
    /\ Untouched

\* run_mind, lines 839-842: update_new_events and its memo.
Update ==
    /\ pc = "update"
    /\ SelectCalls(loc.batch) # <<>>
    /\ ~Truthy(runFile, "events_updated")
    /\ LET updated == update_new_events(SelectCalls(loc.batch), SelectOthers(loc.batch),
                                        runFile.output.review)
       IN  /\ eventFiles' = save_items(updated, eventFiles)
           /\ hist' = [Wrote(hist, FileNames(updated)) EXCEPT
                          !.backfilled = @ \cup FileNames(updated)]
    /\ runFile' = set_and_save(runFile, "events_updated", TRUE)
    /\ pc' = "call_events"
    /\ UNCHANGED <<clock, gsFile, archives, goalFiles, cfg, gs, loc, crashes>>
    /\ Untouched

\* run_mind, line 843, with stored call events.
CallEventsStored ==
    /\ pc = "call_events"
    /\ Truthy(runFile, "action_event")
    /\ pc' = "calls"
    /\ UNCHANGED <<clock, gsFile, runFile, archives, eventFiles, goalFiles, cfg, gs,
                   loc, hist, crashes>>
    /\ Untouched

\* run_mind, lines 843-853: one mapping per requested call, each with a new id
\* and a timestamp, and their memo.
CallEvents ==
    /\ pc = "call_events"
    /\ ~Truthy(runFile, "action_event")
    /\ LET calls == runFile.output.calls
           n == Len(calls)
           mappings == [i \in 1..n |->
               [id |-> cfg.last_id + i, timestamp |-> get_timestamp(clock + i - 1),
                batch_number |-> gs.action_batch_number,
                goal_id |-> cfg.focused_goal_id, summary |-> "call_summary",
                content |-> <<calls[i], 0>>]]
       IN  /\ cfg' = AfterIds(cfg, n)
           /\ gsFile' = IF n > 0 THEN cfg' ELSE gsFile
           /\ clock' = clock + n
           /\ runFile' = set_and_save(runFile, "action_event", mappings)
    /\ hist' = Redone(hist, "action_event")
    /\ pc' = "calls"
    /\ UNCHANGED <<archives, eventFiles, goalFiles, gs, loc, crashes>>
    /\ Untouched

\* zip(system_function_calls, function_call_events)
NumCalls == IF Len(runFile.output.calls) < Len(runFile.action_event)
            THEN Len(runFile.output.calls) ELSE Len(runFile.action_event)

HasResult(i) ==
    \E k \in DOMAIN runFile.call_result :
        runFile.call_result[k].id = runFile.action_event[i].id

\* The last call of the batch without a stored result, or 0.
NextCallFromEnd ==
    IF \A i \in 1..NumCalls : HasResult(i) THEN 0
    ELSE CHOOSE i \in 1..NumCalls : ~HasResult(i) /\ \A j \in (i + 1)..NumCalls : HasResult(j)

\* The first call of the batch without a stored result, or 0.
NextCall ==
    IF \A i \in 1..NumCalls : HasResult(i) THEN 0
    ELSE CHOOSE i \in 1..NumCalls : ~HasResult(i) /\ \A j \in 1..(i - 1) : HasResult(j)

\* call_system_function: what the dispatcher does with a call of this kind.
call_system_function(kind) ==
    CASE kind = "unknown_system" -> "unknown system"
      [] kind = "unknown_function" -> "unknown function"
      [] kind = "raises" -> "call raised"
      [] kind = "unimplemented" -> "call unimplemented"
      [] OTHER -> "returns"

NotImplementedError(message, cause) ==
    [type |-> "NotImplementedError", message |-> message, cause |-> cause]

\* A dispatcher that wraps every failure in the same exception.
call_error_wrapped(kind) ==
    NotImplementedError("TODO: Implement error handling for function calls.", "")

\* The exception that leaves call_system_function: its own for an unknown
\* system or function, the callable's NotImplementedError as it is, any other
\* exception of the callable as the cause of a new NotImplementedError.
call_error(kind) ==
    CASE kind = "unknown_system" -> NotImplementedError("TODO: Implement system.", "")
      [] kind = "unknown_function" -> NotImplementedError("TODO: Implement function.", "")
      [] kind = "raises" ->
            NotImplementedError("TODO: Implement error handling for function calls.",
                                "Exception")
      [] kind = "unimplemented" -> NotImplementedError("", "")
      [] OTHER -> NoError

\* run_mind, lines 858-864: the loop is over.
CallsDone ==
    /\ pc = "calls"
    /\ NextCall = 0
    /\ pc' = "result_events"
    /\ UNCHANGED <<clock, gsFile, runFile, archives, eventFiles, goalFiles, cfg, gs,
                   loc, hist, crashes>>
    /\ Untouched

\* call_system_function raises: no result is stored.
CallFails ==
    /\ pc = "calls"
    /\ NextCall # 0
    /\ call_system_function(runFile.output.calls[NextCall]) # "returns"
    /\ pc' = "failed"
    /\ hist' = [hist EXCEPT !.last = "failed",
                            !.failure = call_system_function(runFile.output.calls[NextCall]),
                            !.failures = @ + 1,
                            !.error = call_error(runFile.output.calls[NextCall])]
    /\ UNCHANGED <<clock, gsFile, runFile, archives, eventFiles, goalFiles, cfg, gs,
                   loc, crashes>>
    /\ Untouched

\* A store that puts the new result before the stored ones.
StoreResultFirst(result) ==
    runFile' = set_and_save_late(runFile, "call_result",
                  <<[id |-> runFile.action_event[NextCall].id, result |-> result]>>
                  \o runFile.call_result)

\* run_mind, lines 861-864: the mapping of results with the new entry after
\* the stored ones, which ruamel.yaml writes and reads back in this order.
StoreResult(result) ==
    runFile' = set_and_save_late(runFile, "call_result",
                  Append(runFile.call_result,
                         [id |-> runFile.action_event[NextCall].id, result |-> result]))

\* The call is counted, and what it returned is kept under its position.
Invoked(h) ==
    [h EXCEPT !.invoked[NextCall] = @ + 1,
              !.returned[NextCall] =
                  (CHOOSE e \in Range(runFile'.call_result) :
                       e.id = runFile.action_event[NextCall].id).result]

\* ENVIRONMENT.sleep: a text and nothing else.
CallSleep ==
    /\ pc = "calls"
    /\ NextCall # 0
    /\ runFile.output.calls[NextCall] = "sleep"
    /\ StoreResult(<<"sleeping", 0>>)
    /\ hist' = Invoked(hist)
    /\ UNCHANGED <<clock, gsFile, archives, eventFiles, goalFiles, cfg, gs, loc, crashes, pc>>
    /\ Untouched

\* GOALS.add_goal: a new id, the goal saved, the focus set in the global state.
add_goal ==
    LET goal == Goal(generate_id(cfg), get_timestamp(clock), cfg.action_batch_number,
                     "test goal")
    IN  /\ goalFiles' = save_items(<<goal>>, goalFiles)
        /\ cfg' = set_global_state(AfterIds(cfg, 1), "focused_goal_id", goal.id)
        /\ gsFile' = cfg'
        /\ clock' = clock + 1
        /\ StoreResult(<<"goal_added", goal.id>>)

CallAddGoal ==
    /\ pc = "calls"
    /\ NextCall # 0
    /\ runFile.output.calls[NextCall] = "add_goal"
    /\ add_goal
    /\ hist' = Invoked(hist)
    /\ UNCHANGED <<archives, eventFiles, gs, loc, crashes, pc>>
    /\ Untouched

\* run_mind, line 865, with stored call result events.
ResultEventsStored ==
    /\ pc = "result_events"
    /\ Truthy(runFile, "call_result_event")
    /\ pc' = "save"
    /\ UNCHANGED <<clock, gsFile, runFile, archives, eventFiles, goalFiles, cfg, gs,
                   loc, hist, crashes>>
    /\ Untouched

\* run_mind, lines 865-877: one mapping per (call event, stored result), in the
\* order of the stored results, and their memo.
ResultEvents ==
    /\ pc = "result_events"
    /\ ~Truthy(runFile, "call_result_event")
    /\ LET n == IF Len(runFile.action_event) < Len(runFile.call_result)
                THEN Len(runFile.action_event) ELSE Len(runFile.call_result)
           mappings == [i \in 1..n |->
               [id |-> cfg.last_id + i, timestamp |-> get_timestamp(clock + i - 1),
                batch_number |-> gs.action_batch_number,
                goal_id |-> cfg.focused_goal_id,
                function_call_id |-> runFile.action_event[i].id,
                content |-> runFile.call_result[i].result]]
       IN  /\ cfg' = AfterIds(cfg, n)
           /\ gsFile' = IF n > 0 THEN cfg' ELSE gsFile
           /\ clock' = clock + n
           /\ runFile' = set_and_save_late(runFile, "call_result_event", mappings)
    /\ hist' = Redone(hist, "call_result_event")
    /\ pc' = "save"
    /\ UNCHANGED <<archives, eventFiles, goalFiles, gs, loc, crashes>>
    /\ Untouched

\* from_mapping of the stored mappings, lines 854-857 and 878-882.
\* New events that are built again by every process instead of being taken
\* from the stored mappings.
NewEventsRebuilt(rs) ==
    [i \in DOMAIN rs.action_event |->
        LET m == rs.action_event[i]
        IN  FunctionCallEvent(m.id, format_timestamp(get_timestamp(clock + crashes + i)),
                              m.batch_number, m.goal_id, m.summary, m.content)]
    \o [i \in DOMAIN rs.call_result_event |->
        LET m == rs.call_result_event[i]
        IN  CallResultEvent(m.id, format_timestamp(m.timestamp), m.batch_number,
                            m.goal_id, m.function_call_id, m.content)]

NewEvents(rs) ==
    [i \in DOMAIN rs.action_event |->
        LET m == rs.action_event[i]
        IN  FunctionCallEvent(m.id, format_timestamp(m.timestamp), m.batch_number,
                              m.goal_id, m.summary, m.content)]
    \o [i \in DOMAIN rs.call_result_event |->
        LET m == rs.call_result_event[i]
        IN  CallResultEvent(m.id, format_timestamp(m.timestamp), m.batch_number,
                            m.goal_id, m.function_call_id, m.content)]

\* run_mind, line 883, with events_saved stored.
SaveStored ==
    /\ pc = "save"
    /\ Truthy(runFile, "events_saved")
    /\ pc' = "increment"
    /\ UNCHANGED <<clock, gsFile, runFile, archives, eventFiles, goalFiles, cfg, gs,
                   loc, hist, crashes>>
    /\ Untouched

\* run_mind, line 883: save_events(new_events) and its memo.
Save ==
    /\ pc = "save"
    /\ ~Truthy(runFile, "events_saved")
    /\ eventFiles' = save_items(NewEvents(runFile), eventFiles)
    /\ runFile' = set_and_save_late(runFile, "events_saved", TRUE)
    /\ hist' = [Wrote(hist, FileNames(NewEvents(runFile))) EXCEPT !.saves = @ + 1]
    /\ pc' = "increment"
    /\ UNCHANGED <<clock, gsFile, archives, goalFiles, cfg, gs, loc, crashes>>
    /\ Untouched

\* The process is killed inside save_events, after the files of the first k
\* of the new events were written and before events_saved is stored.
SaveKilled ==
    /\ pc = "save"
    /\ ~Truthy(runFile, "events_saved")
    /\ crashes < MaxCrashes
    /\ \E k \in 1..Len(NewEvents(runFile)) :
        /\ eventFiles' = save_items(SubSeq(NewEvents(runFile), 1, k), eventFiles)
        /\ hist' = [Wrote(hist, FileNames(SubSeq(NewEvents(runFile), 1, k))) EXCEPT
                       !.last = "killed", !.kills = @ + 1, !.save_kills = @ + 1,
                       !.before_save = eventFiles, !.save_list = NewEvents(runFile),
                       !.save_written = k]
    /\ crashes' = crashes + 1
    /\ pc' = "idle"
    /\ loc' = NoLoc
    /\ UNCHANGED <<clock, gsFile, runFile, archives, goalFiles, cfg, gs>>
    /\ Untouched

\* run_mind, line 886, with action_number_incremented stored.
IncrementStored ==
    /\ pc = "increment"
    /\ Truthy(runFile, "action_number_incremented")
    /\ pc' = "archive"
    /\ UNCHANGED <<clock, gsFile, runFile, archives, eventFiles, goalFiles, cfg, gs,
                   loc, hist, crashes>>
    /\ Untouched

\* An increment that advances the counter by two.
increment_by_two ==
    /\ gs' = set_global_state(gs, "action_batch_number", gs.action_batch_number + 2)
    /\ gsFile' = gs'

\* increment_action_number, through global_state.
increment_action_number ==
    /\ gs' = set_global_state(gs, "action_batch_number", gs.action_batch_number + 1)
    /\ gsFile' = gs'

\* run_mind, line 887: the call; the file is written before the call returns.
Increment ==
    /\ pc = "increment"
    /\ ~Truthy(runFile, "action_number_incremented")
    /\ increment_action_number
    /\ hist' = [hist EXCEPT !.increments = @ + 1]
    /\ pc' = "increment_memo"
    /\ UNCHANGED <<clock, runFile, archives, eventFiles, goalFiles, cfg, loc, crashes>>
    /\ Untouched

\* run_mind, line 886: the assignment stores the memo of the call.
IncrementMemo ==
    /\ pc = "increment_memo"
    /\ runFile' = set_and_save_late(runFile, "action_number_incremented", TRUE)
    /\ pc' = "archive"
    /\ UNCHANGED <<clock, gsFile, archives, eventFiles, goalFiles, cfg, gs, loc, hist,
                   crashes>>
    /\ Untouched

\* RunState.archive, lines 554-558: the name is computed, finalized_at stored.
ArchiveName(timestamp) == timestamp_to_filename(timestamp) \o YamlSuffix

ArchiveStamp ==
    /\ pc = "archive"
    /\ LET timestamp == get_timestamp(clock)
       IN  /\ loc' = [loc EXCEPT !.archive_name = ArchiveName(timestamp)]
           /\ runFile' = set_and_save_late(runFile, "finalized_at", timestamp)
    /\ clock' = clock + 1
    /\ pc' = "rename"
    /\ UNCHANGED <<gsFile, archives, eventFiles, goalFiles, cfg, gs, hist, crashes>>
    /\ Untouched

\* An archive step that copies the file and leaves the live one in place.
copy_file(file, name) ==
    /\ archives' = WriteFile(archives, name, file)
    /\ runFile' = file

\* RunState.archive, line 559: the rename; run_mind returns.
rename(file, name) ==
    /\ archives' = WriteFile(archives, name, file)
    /\ runFile' = NoRun

ArchiveRename ==
    /\ pc = "rename"
    /\ rename(runFile, loc.archive_name)
    /\ hist' = [hist EXCEPT !.last = "archived", !.record = runFile,
                            !.name = loc.archive_name]
    /\ pc' = "idle"
    /\ loc' = NoLoc
    /\ UNCHANGED <<clock, gsFile, eventFiles, goalFiles, cfg, gs, crashes>>
    /\ Untouched

Next ==
    \/ Start \/ Crash
    \/ MessagesSkip \/ MessagesStored \/ MessagesDownload
    \/ NotifyNone \/ Notify \/ MessagesDone
    \/ OutputStored \/ OutputFeedRaises \/ OutputQuery
    \/ ExtractFails \/ Extract
    \/ UpdateSkip \/ Update
    \/ CallEventsStored \/ CallEvents
    \/ CallsDone \/ CallFails \/ CallSleep \/ CallAddGoal
    \/ ResultEventsStored \/ ResultEvents
    \/ SaveStored \/ Save \/ SaveKilled
    \/ IncrementStored \/ Increment \/ IncrementMemo
    \/ ArchiveStamp \/ ArchiveRename

NotExtracted ==
    [ok |-> FALSE, tag |-> "", num_blocks_found |-> 0, feed_review |-> <<>>,
     calls |-> <<>>]

NoFeed == [dir |-> {}, lookback |-> 1]

EngineInit ==
    /\ clock = 1
    /\ gsFile = InitialGlobalState
    /\ runFile = NoRun
    /\ archives = {}
    /\ eventFiles = {}
    /\ goalFiles = {}
    /\ pc = "idle"
    /\ cfg = InitialGlobalState
    /\ gs = InitialGlobalState
    /\ loc = NoLoc
    /\ hist = [NewHist EXCEPT !.last = "none"]
    /\ crashes = 0

Init ==
    /\ EngineInit
    /\ text = <<>>
    /\ extracted = NotExtracted
    /\ feedIn = NoFeed
    /\ feedOut = <<>>
    /\ fnIn = <<>>
    /\ fnOut = <<>>

Spec == Init /\ [][Next]_vars

-----------------------------------------------------------------------------
(* extract_output_sections on arbitrary texts *)

\* What a text is made of: a start tag with or without its newline, an end
\* tag, a token of content.
Pieces == {<<FR_OPEN, NL>>, <<FR_OPEN>>, <<FR_CLOSE>>, <<SC_OPEN, NL>>, <<SC_CLOSE>>,
           <<"R">>}

Texts == {Flatten(ps) : ps \in SeqsUpTo(Pieces, MaxTextLen)}

InitExtract ==
    /\ EngineInit
    /\ pc = "idle"
    /\ text \in Texts
    /\ extracted = NotExtracted
    /\ feedIn = NoFeed
    /\ feedOut = <<>>
    /\ fnIn = <<>>
    /\ fnOut = <<>>

ExtractSections ==
    /\ pc = "idle"
    /\ extracted' = extract_output_sections(text)
    /\ pc' = "extracted"
    /\ UNCHANGED <<clock, gsFile, runFile, archives, eventFiles, goalFiles, cfg, gs,
                   loc, hist, crashes, text, feedIn, feedOut, fnIn, fnOut>>

NextExtract == ExtractSections

SpecExtract == InitExtract /\ [][NextExtract]_vars

-----------------------------------------------------------------------------
(* call_event_batch on the event directories that turns leave behind *)

\* What a turn adds to the directory: a notification of new messages or none,
\* then its call events, then their results.
TurnShapes == [note : BOOLEAN, calls : 0..MaxCalls]

\* The events of turn b, the first of which gets the id first_id and the clock
\* reading tick.
TurnEvents(shape, b, first_id, tick) ==
    LET k == IF shape.note THEN 1 ELSE 0
        n == shape.calls
    IN  (IF shape.note
         THEN <<NotificationEvent(first_id, get_timestamp(tick), b - 1,
                                  <<"new_messages", 0>>)>>
         ELSE <<>>)
        \o [i \in 1..n |->
              FunctionCallEvent(first_id + k + i - 1,
                                format_timestamp(get_timestamp(tick + k + i - 1)),
                                b, NoId, "call_summary", <<"sleep", 0>>)]
        \o [i \in 1..n |->
              CallResultEvent(first_id + k + n + i - 1,
                              format_timestamp(get_timestamp(tick + k + n + i - 1)),
                              b, NoId, first_id + k + i - 1, <<"sleeping", 0>>)]

RECURSIVE TurnsDir(_, _, _)
TurnsDir(shapes, b, dir) ==
    IF b > Len(shapes) THEN dir
    ELSE TurnsDir(shapes, b + 1,
                  save_items(TurnEvents(shapes[b], b, Cardinality(dir) + 1,
                                        Cardinality(dir) + 1), dir))

FeedDirs == {TurnsDir(shapes, 1, {}) : shapes \in SeqsUpTo(TurnShapes, MaxFeedTurns)}

InitFeed ==
    /\ EngineInit
    /\ pc = "idle"
    /\ text = <<>>
    /\ extracted = NotExtracted
    /\ feedIn \in [dir : FeedDirs, lookback : 1..MaxTurns]
    /\ feedOut = <<>>
    /\ fnIn = <<>>
    /\ fnOut = <<>>

ReadBatch ==
    /\ pc = "idle"
    /\ feedOut' = call_event_batch(feedIn.dir, feedIn.lookback)
    /\ pc' = "batch_read"
    /\ UNCHANGED <<clock, gsFile, runFile, archives, eventFiles, goalFiles, cfg, gs,
                   loc, hist, crashes, text, extracted, feedIn, fnIn, fnOut>>

NextFeed == ReadBatch

SpecFeed == InitFeed /\ [][NextFeed]_vars

-----------------------------------------------------------------------------
(* Properties of the turn *)

TurnArchived == pc = "idle" /\ hist.last = "archived"

EventsAdded == Cardinality(eventFiles) - Cardinality(hist.start.events)

GoalsAdded == Cardinality(goalFiles) - Cardinality(hist.start.goals)

AddGoalCalls(calls) == Cardinality({i \in DOMAIN calls : calls[i] = "add_goal"})

OwnEventNames(rs) == FileNames(NewEvents(rs))

\* C1: a turn that was killed after persisted memos and restarted ends with
\* the records a crash-free run of the turn leaves (one notification if there
\* were new messages, one call event and one result event per call, one goal
\* per add_goal), writes none of its own event records twice and invokes no
\* subsystem function twice.
C1_IdempotentResume ==
    (TurnArchived /\ hist.kills > 0 /\ hist.failures = 0) =>
        /\ EventsAdded = (IF hist.record.new_messages # 0 THEN 1 ELSE 0)
                         + 2 * Len(hist.record.output.calls)
        /\ GoalsAdded = AddGoalCalls(hist.record.output.calls)
        /\ OwnEventNames(hist.record) \cap hist.rewritten = {}
        /\ \A i \in DOMAIN hist.invoked : hist.invoked[i] <= 1

\* C2: within one turn, whatever the kills after persisted results, the model
\* query, the download of new messages, each call of the batch, the save of the
\* turn's events and the increment of action_batch_number happen at most once.
C2_AtMostOnce ==
    hist.failures = 0 =>
        /\ hist.queries <= 1
        /\ hist.downloads <= 1
        /\ \A i \in DOMAIN hist.invoked : hist.invoked[i] <= 1
        /\ hist.saves <= 1
        /\ hist.increments <= 1

IsEmptyStart ==
    hist.start = [events |-> {}, goals |-> {}, gs |-> InitialGlobalState]

\* C3: the first turn, from no goals, no events and global state
\* {action_batch_number: 1, last_id: 0}, with the single call add_goal, ends
\* with one goal of a fresh id, focused_goal_id equal to that id, one call event
\* and one result event of batch 1, action_batch_number 2, the run state
\* archived.
C3_FirstTurn ==
    (/\ TurnArchived /\ hist.kills = 0 /\ hist.failures = 0
     /\ IsEmptyStart
     /\ hist.record.new_messages = 0
     /\ hist.record.output.calls = <<"add_goal">>) =>
        /\ \E g \in goalFiles :
            /\ goalFiles = {g}
            /\ g.item.id > hist.start.gs.last_id
            /\ gsFile.focused_goal_id = g.item.id
        /\ \E c, r \in eventFiles :
            /\ eventFiles = {c, r}
            /\ c.item.type = "function_call" /\ c.item.batch_number = 1
            /\ r.item.type = "call_result" /\ r.item.batch_number = 1
        /\ gsFile.action_batch_number = 2
        /\ ~runFile.exists
        /\ \E a \in archives : a.item = hist.record

\* The memo fields in the order run_mind fills them.
MemoOrder ==
    <<"messages_updated", "output", "events_updated", "action_event", "call_result",
      "call_result_event", "events_saved", "action_number_incremented", "finalized_at">>

\* A memo field is set; call_result is set when it holds an entry per call id.
Filled(rs, key) ==
    IF key = "call_result"
    THEN /\ "action_event" \in rs.keys
         /\ \A i \in DOMAIN rs.action_event :
               \E j \in DOMAIN rs.call_result : rs.call_result[j].id = rs.action_event[i].id
    ELSE key \in rs.keys

\* events_updated may stay unset when the batch before the turn has no call.
Exempt(key) ==
    key = "events_updated" /\ SelectCalls(call_event_batch(hist.start.events, 1)) = <<>>

IsPrefix(a, b) == Len(a) <= Len(b) /\ SubSeq(b, 1, Len(a)) = a

MemosInOrder ==
    \A i, j \in DOMAIN MemoOrder :
        (i < j /\ Filled(runFile, MemoOrder[j])) =>
            Filled(runFile, MemoOrder[i]) \/ Exempt(MemoOrder[i])

MemosForward ==
    runFile'.exists =>
        /\ \A key \in runFile.keys \cap Range(MemoOrder) :
            /\ key \in runFile'.keys
            /\ IF key = "call_result" THEN IsPrefix(runFile.call_result, runFile'.call_result)
               ELSE runFile'[key] = runFile[key]
        /\ \A i, j \in DOMAIN MemoOrder :
            (i < j /\ ~Filled(runFile, MemoOrder[i]) /\ Filled(runFile', MemoOrder[i])) =>
                ~Filled(runFile, MemoOrder[j])

\* C4: the memo fields of the run state are filled in the order
\* messages_updated, output, events_updated, call_events, call_results,
\* call_result_events, events_saved, action_number_incremented, finalized_at:
\* none is set while an earlier one is unset (events_updated exempted when the
\* previous batch has no call), none is set after a later one, and a set field
\* is neither unset nor changed until the turn is archived.
C4_StrictForwardOrder == [](MemosInOrder) /\ [][MemosForward]_vars

\* C5: the archive step removes the live run-state file and adds exactly one
\* archive record, named timestamp_to_filename(finalized_at) + ".yaml", that
\* holds every memo of the turn, finalized_at included; the run_mind that
\* starts next finds an empty run state.
C5_Archive ==
    [][/\ (pc = "rename" /\ hist'.last = "archived") =>
            /\ ~runFile'.exists
            /\ \E a \in archives' \ archives :
                /\ archives' \ archives = {a}
                /\ "finalized_at" \in runFile.keys
                /\ a.name = timestamp_to_filename(runFile.finalized_at) \o YamlSuffix
                /\ a.item = runFile
       /\ (hist.last = "archived" /\ pc' = "messages") =>
            /\ ~runFile'.exists
            /\ runFile'.keys = {}]_vars

\* A run_mind has started on the empty run state an archive left behind.
C5_Witness ==
    /\ pc = "messages"
    /\ archives # {}
    /\ runFile.keys = {}
    /\ \E a \in archives : {"output", "events_saved", "finalized_at"} \subseteq a.item.keys

FailedOnOutput == hist.last = "failed" /\ hist.failure \in {"extraction", "parsing"}

\* C6: an invocation that fails (extraction, unknown system or function, a
\* call that raises, feed over budget) ends with the run state not archived and
\* action_batch_number as it was; a restart after a failure executes no step
\* whose memo is stored.
C6_FailurePropagation ==
    /\ hist.last = "failed" =>
        /\ runFile.exists
        /\ "finalized_at" \notin runFile.keys
        /\ gsFile.action_batch_number = hist.start.gs.action_batch_number
    /\ (hist.failures > 0 /\ hist.kills = 0) => hist.reexec = {}

\* C7, as claimed: when extraction or parsing of the model output fails, the
\* events, the goals and the persisted global state are what they were at the
\* start of the turn.
C7_NoMutationSinceStart == FailedOnOutput => Snapshot = hist.start

\* C7, amended: when extraction or parsing of the model output fails, the
\* events, the goals and the persisted global state are what they were when
\* update_messages had finished (messages_updated stored).
C7_NoMutationSinceMessages == FailedOnOutput => Snapshot = hist.msgs

\* The output of a turn that update_messages had changed the state of failed
\* to parse.
C7_Witness == FailedOnOutput /\ hist.msgs # hist.start /\ Snapshot = hist.msgs

-----------------------------------------------------------------------------
(* Properties of extraction, validation and the batch scan *)

NumBlocks(s, open, close) == Len(extract_blocks(s, open, close))

\* C8: a text with two <feed-review> blocks raises an extraction error with
\* num_blocks_found = 2, one with none raises with num_blocks_found = 0, and
\* one with exactly one <feed-review> block and exactly one
\* <system-function-calls> block is extracted, the content of each returned.
C8_ExtractionStrictness ==
    pc = "extracted" =>
        /\ NumBlocks(text, FR_OPEN, FR_CLOSE) = 2 =>
            ~extracted.ok /\ extracted.tag = FR_OPEN /\ extracted.num_blocks_found = 2
        /\ NumBlocks(text, FR_OPEN, FR_CLOSE) = 0 =>
            ~extracted.ok /\ extracted.tag = FR_OPEN /\ extracted.num_blocks_found = 0
        /\ (NumBlocks(text, FR_OPEN, FR_CLOSE) = 1 /\ NumBlocks(text, SC_OPEN, SC_CLOSE) = 1) =>
            /\ extracted.ok
            /\ extracted.feed_review = extract_blocks(text, FR_OPEN, FR_CLOSE)[1]
            /\ extracted.calls = extract_blocks(text, SC_OPEN, SC_CLOSE)[1]

HasSummary(review, id) == \E r \in review.new_events : r.event_id = id

\* C9: no event is backfilled in a turn whose feed review lacks a summary for
\* an event of the batch that is no call (such a turn is rejected), and a
\* well-formed output whose review has a summary for each of them is accepted.
C9_ValidationCompleteness ==
    /\ (runFile.exists /\ hist.kills = 0 /\ hist.failures = 0) =>
        \A f \in eventFiles :
            (f.name \in hist.backfilled /\ ~IsCall(f.item)) =>
                HasSummary(runFile.output.review, f.item.id)
    /\ (/\ pc = "extract"
        /\ runFile.output.text = GoodText
        /\ runFile.output.review = ReviewAll(call_event_batch(eventFiles, 1))) =>
            extract_output(runFile.output).ok

\* The events of a directory, oldest first: ids are given in order of creation.
RECURSIVE ById(_)
ById(dir) ==
    IF dir = {} THEN <<>>
    ELSE LET first == CHOOSE f \in dir : \A g \in dir : f.item.id <= g.item.id
         IN  <<read_event(first)>> \o ById(dir \ {first})

\* The batch numbers of the call events of the directory.
ActionBatches(dir) == {f.item.batch_number : f \in {g \in dir : IsCall(g.item)}}

\* The k greatest of them.
RecentBatches(dir, k) ==
    {b \in ActionBatches(dir) : Cardinality({c \in ActionBatches(dir) : c > b}) < k}

\* The events of the k most recent action batches: everything from the oldest
\* of these batches on, and everything when there are fewer than k.
EventsOfBatches(dir, k) ==
    IF Cardinality(ActionBatches(dir)) < k THEN ById(dir)
    ELSE SelectSeq(ById(dir),
                   LAMBDA e : \E b \in RecentBatches(dir, k) : e.batch_number >= b)

\* C10: call_event_batch with lookback k returns, oldest first, exactly the
\* events of the k most recent batches, every call event of a batch of several
\* calls included.
C10_FeedBatchBoundary ==
    pc = "batch_read" => feedOut = EventsOfBatches(feedIn.dir, feedIn.lookback)

-----------------------------------------------------------------------------
(* reorder_goals on arbitrary goal lists *)

MaxGoals == 3

Max(a, b) == IF a < b THEN b ELSE a

\* Positions count from 1 here, so "no position" is 0 where the code has -1.
RECURSIVE find_last_descendant_index(_, _)
RECURSIVE DescendantScan(_, _, _, _)
DescendantScan(new_list, parent_id, i, last_index) ==
    IF i > Len(new_list) THEN last_index
    ELSE LET goal == new_list[i]
         IN  DescendantScan(new_list, parent_id, i + 1,
                IF goal.parent_goal_id = parent_id
                THEN Max(Max(last_index, i), find_last_descendant_index(new_list, goal.id))
                ELSE IF goal.id = parent_id /\ last_index < i THEN i
                ELSE last_index)

find_last_descendant_index(new_list, parent_id) ==
    DescendantScan(new_list, parent_id, 1, 0)

\* An insertion that puts the goal at the end of the list.
InsertAtEnd(list, index, goal) == Append(list, goal)

\* list.insert(index, goal) with index counted from 0.
Insert(list, index, goal) ==
    SubSeq(list, 1, index) \o <<goal>> \o SubSeq(list, index + 1, Len(list))

\* A loop body that takes a goal without a listed parent for a root.
place_goal_as_root(acc, goal) ==
    IF goal.parent_goal_id = NoId
       \/ ~\E i \in DOMAIN acc.new_list : acc.new_list[i].id = goal.parent_goal_id
    THEN [acc EXCEPT !.new_list = Append(@, goal)]
    ELSE [acc EXCEPT !.new_list =
            Insert(@, find_last_descendant_index(@, goal.parent_goal_id), goal)]

\* The body of the loop of reorder_goals.
place_goal(acc, goal) ==
    IF goal.parent_goal_id = NoId
    THEN [acc EXCEPT !.new_list = Append(@, goal)]
    ELSE IF \E i \in DOMAIN acc.new_list : acc.new_list[i].id = goal.parent_goal_id
    THEN [acc EXCEPT !.new_list =
            Insert(@, find_last_descendant_index(@, goal.parent_goal_id), goal)]
    ELSE [acc EXCEPT !.orphaned = Append(@, goal)]

RECURSIVE ReorderFrom(_, _, _)
ReorderFrom(old_list, k, acc) ==
    IF k > Len(old_list) THEN acc
    ELSE ReorderFrom(old_list, k + 1, place_goal(acc, old_list[k]))

reorder_goals(old_list) ==
    ReorderFrom(old_list, 1, [new_list |-> <<>>, orphaned |-> <<>>])

\* The goal lists: distinct ids, any parent, also one that no goal has.
GoalLists ==
    {gl \in SeqsUpTo([id : 1..MaxGoals, parent_goal_id : 0..(MaxGoals + 1)], MaxGoals) :
        \A i, j \in DOMAIN gl : i # j => gl[i].id # gl[j].id}

InitGoals ==
    /\ EngineInit
    /\ pc = "idle"
    /\ text = <<>>
    /\ extracted = NotExtracted
    /\ feedIn = NoFeed
    /\ feedOut = <<>>
    /\ fnIn \in GoalLists
    /\ fnOut = <<>>

Reorder ==
    /\ pc = "idle"
    /\ fnOut' = reorder_goals(fnIn)
    /\ pc' = "reordered"
    /\ UNCHANGED <<clock, gsFile, runFile, archives, eventFiles, goalFiles, cfg, gs,
                   loc, hist, crashes, text, extracted, feedIn, feedOut, fnIn>>

NextGoals == Reorder

SpecGoals == InitGoals /\ [][NextGoals]_vars

\* The goal with this id, in a list of goals with distinct ids.
GoalOf(list, id) == list[CHOOSE i \in DOMAIN list : list[i].id = id]

InList(list, id) == \E i \in DOMAIN list : list[i].id = id

\* Following parent_goal_id from the goal for at most n steps ends at a root.
RECURSIVE ReachesRoot(_, _, _)
ReachesRoot(list, goal, n) ==
    \/ goal.parent_goal_id = NoId
    \/ /\ n > 0
       /\ InList(list, goal.parent_goal_id)
       /\ ReachesRoot(list, GoalOf(list, goal.parent_goal_id), n - 1)

\* Following parent_goal_id from the goal for at most n steps ends at an id
\* that no goal of the list has.
RECURSIVE LeadsToAbsent(_, _, _)
LeadsToAbsent(list, goal, n) ==
    /\ goal.parent_goal_id # NoId
    /\ \/ ~InList(list, goal.parent_goal_id)
       \/ /\ n > 0
          /\ LeadsToAbsent(list, GoalOf(list, goal.parent_goal_id), n - 1)

PositionOf(list, id) == CHOOSE i \in DOMAIN list : list[i].id = id

\* C11: when every goal of the input has a chain of parents inside the input
\* that ends at a root, whatever the order of the input, reorder_goals orphans
\* nothing, orders every goal, and puts each goal after its parent.
C11_OrderIndependent ==
    (pc = "reordered" /\ \A i \in DOMAIN fnIn : ReachesRoot(fnIn, fnIn[i], Len(fnIn)))
    => /\ fnOut.orphaned = <<>>
       /\ Range(fnOut.new_list) = Range(fnIn)
       /\ Len(fnOut.new_list) = Len(fnIn)
       /\ \A i \in DOMAIN fnOut.new_list :
            fnOut.new_list[i].parent_goal_id # NoId
            => PositionOf(fnOut.new_list, fnOut.new_list[i].parent_goal_id) < i

\* C12: a goal whose chain of parents leads to an id that no goal of the input
\* has is in the orphaned list and not in the ordered list.
C12_AbsentParentOrphan ==
    pc = "reordered"
    => \A i \in DOMAIN fnIn :
         LeadsToAbsent(fnIn, fnIn[i], Len(fnIn))
         => /\ fnIn[i] \in Range(fnOut.orphaned)
            /\ fnIn[i] \notin Range(fnOut.new_list)

\* A goal with an absent parent, listed after a goal whose parent it is, and a
\* root that is ordered.
C12_Witness ==
    /\ pc = "reordered"
    /\ Len(fnIn) = 3
    /\ ~InList(fnIn, fnIn[2].parent_goal_id) /\ fnIn[2].parent_goal_id # NoId
    /\ fnIn[1].parent_goal_id = fnIn[2].id
    /\ fnIn[3].parent_goal_id = NoId
    /\ Len(fnOut.orphaned) = 2
    /\ fnOut.new_list = <<fnIn[3]>>

-----------------------------------------------------------------------------
(* Timestamps to file names and back *)

MaxTick == 9

\* What the function returns when it raises ValueError.
ValueError == <<>>

\* str.replace(old, new, count) for single characters.
RECURSIVE ReplaceCount(_, _, _, _)
ReplaceCount(s, old, new, count) ==
    IF s = <<>> THEN <<>>
    ELSE IF Head(s) = old /\ count > 0
    THEN <<new>> \o ReplaceCount(Tail(s), old, new, count - 1)
    ELSE <<Head(s)>> \o ReplaceCount(Tail(s), old, new, count)

\* A conversion that restores a colon for every dash of the time part.
filename_to_timestamp_final(filename) ==
    LET cuts == {i \in 1..(Len(filename) - 1) :
                    filename[i] = Ch.under /\ filename[i + 1] = Ch.T}
    IN  IF Cardinality(cuts) # 1 THEN ValueError
        ELSE LET cut == CHOOSE i \in cuts : TRUE
                 date_part == SubSeq(filename, 1, cut - 1)
                 time_part == SubSeq(filename, cut + 2, Len(filename))
             IN  date_part \o <<Ch.T>>
                 \o ReplaceCount(time_part, Ch.dash, Ch.colon, Len(time_part))

\* filename_to_timestamp: split at "_T" into exactly two parts, the first two
\* dashes of the time part become colons, the others periods.
filename_to_timestamp(filename) ==
    LET cuts == {i \in 1..(Len(filename) - 1) :
                    filename[i] = Ch.under /\ filename[i + 1] = Ch.T}
    IN  IF Cardinality(cuts) # 1 THEN ValueError
        ELSE LET cut == CHOOSE i \in cuts : TRUE
                 date_part == SubSeq(filename, 1, cut - 1)
                 time_part == SubSeq(filename, cut + 2, Len(filename))
                 colons == ReplaceCount(time_part, Ch.dash, Ch.colon, 2)
             IN  date_part \o <<Ch.T>>
                 \o ReplaceCount(colons, Ch.dash, Ch.dot, Len(colons))

\* Two readings of the clock, each kept as get_timestamp returns it or passed
\* through format_timestamp.
InitTime ==
    /\ EngineInit
    /\ pc = "idle"
    /\ text = <<>>
    /\ extracted = NotExtracted
    /\ feedIn = NoFeed
    /\ feedOut = <<>>
    /\ fnIn \in [tick1 : 0..MaxTick, tick2 : 0..MaxTick, formatted : BOOLEAN]
    /\ fnOut = <<>>

Stamp(tick, formatted) ==
    IF formatted THEN format_timestamp(get_timestamp(tick)) ELSE get_timestamp(tick)

Convert ==
    /\ pc = "idle"
    /\ LET t1 == Stamp(fnIn.tick1, fnIn.formatted)
           t2 == Stamp(fnIn.tick2, fnIn.formatted)
       IN  fnOut' = [t1 |-> t1, t2 |-> t2,
                     file1 |-> timestamp_to_filename(t1),
                     file2 |-> timestamp_to_filename(t2),
                     back1 |-> filename_to_timestamp(timestamp_to_filename(t1)),
                     back2 |-> filename_to_timestamp(timestamp_to_filename(t2))]
    /\ pc' = "converted"
    /\ UNCHANGED <<clock, gsFile, runFile, archives, eventFiles, goalFiles, cfg, gs,
                   loc, hist, crashes, text, extracted, feedIn, feedOut, fnIn>>

NextTime == Convert

SpecTime == InitTime /\ [][NextTime]_vars

HasFraction(ts) == \E i \in DOMAIN ts : ts[i] = Ch.dot

\* C13: a timestamp of get_timestamp or of format_timestamp, with or without
\* a fraction, turned into a file name and back is the same timestamp.
C13_RoundTrip ==
    pc = "converted" => fnOut.back1 = fnOut.t1 /\ fnOut.back2 = fnOut.t2

\* A whole-second timestamp without fraction and one with a fraction, both
\* turned into file names that differ from them, and both restored.
C13_Witness ==
    /\ pc = "converted"
    /\ ~HasFraction(fnOut.t1) /\ HasFraction(fnOut.t2)
    /\ fnOut.file1 # fnOut.t1 /\ fnOut.file2 # fnOut.t2
    /\ fnOut.back1 = fnOut.t1 /\ fnOut.back2 = fnOut.t2

\* C14: of two timestamps of get_timestamp the one taken earlier is the
\* lexicographically smaller, and so is its file name; whole seconds included.
C14_TimestampOrder ==
    (pc = "converted" /\ ~fnIn.formatted)
    => /\ (fnIn.tick1 < fnIn.tick2) <=> LexLess(fnOut.t1, fnOut.t2)
       /\ (fnIn.tick1 < fnIn.tick2) <=> LexLess(fnOut.file1, fnOut.file2)

-----------------------------------------------------------------------------
(* Properties of ids and counters over turns *)

\* The records that data/events and data/goals hold.
StoredItems == {f.item : f \in eventFiles \cup goalFiles}

\* Two records of one item: the clock reading they were created at is the same.
SameItem(a, b) == format_timestamp(a.timestamp) = format_timestamp(b.timestamp)

DistinctIds == \A a, b \in StoredItems : a.id = b.id => SameItem(a, b)

\* C15: no two distinct stored items have the same id, and the last_id of the
\* global-state file never decreases.
C15_IdsNeverReused ==
    [](DistinctIds) /\ [][gsFile'.last_id >= gsFile.last_id]_vars

\* C16 as stated: the action_batch_number of the global-state file is 1 at first, never
\* decreases, and when a turn has been archived it is larger by exactly 1 than
\* it was when the turn began, however the turn was killed and restarted.
C16_BatchCounterAnySchedule ==
    /\ gsFile.action_batch_number = 1
    /\ [][gsFile'.action_batch_number >= gsFile.action_batch_number]_vars
    /\ [](TurnArchived
            => gsFile.action_batch_number = hist.start.gs.action_batch_number + 1)

\* C16: the action_batch_number of the global-state file is 1 at first, never
\* decreases, and when a turn has been archived it is larger than when the
\* turn began by 1 and by 1 more for every kill that fell between the write of
\* increment_action_number and the storing of its memo.
C16_BatchCounter ==
    /\ gsFile.action_batch_number = 1
    /\ [][gsFile'.action_batch_number >= gsFile.action_batch_number]_vars
    /\ [](TurnArchived
            => gsFile.action_batch_number =
                 hist.start.gs.action_batch_number + 1 + hist.gap_kills)

\* A turn archived after a kill outside that gap and a restart: the counter
\* has advanced by 1.
C16_Witness ==
    /\ TurnArchived
    /\ hist.kills = 1 /\ hist.gap_kills = 0
    /\ gsFile.action_batch_number = hist.start.gs.action_batch_number + 1

-----------------------------------------------------------------------------
(* run_mind over more turns, none of them killed or restarted *)

MaxLongTurns == 3

\* The process starts with no run-state file left by an earlier one.
StartLong ==
    /\ pc = "idle"
    /\ Cardinality(archives) < MaxLongTurns
    /\ pc' = "messages"
    /\ cfg' = gsFile
    /\ gs' = gsFile
    /\ hist' = NewHist
    /\ loc' = NoLoc
    /\ UNCHANGED <<clock, gsFile, runFile, archives, eventFiles, goalFiles, crashes>>
    /\ Untouched

NextLong ==
    \/ StartLong
    \/ MessagesDownload \/ NotifyNone \/ Notify \/ MessagesDone
    \/ OutputFeedRaises \/ OutputQuery
    \/ ExtractFails \/ Extract
    \/ UpdateSkip \/ Update
    \/ CallEvents
    \/ CallsDone \/ CallFails \/ CallSleep \/ CallAddGoal
    \/ ResultEvents
    \/ Save
    \/ Increment \/ IncrementMemo
    \/ ArchiveStamp \/ ArchiveRename

SpecLong == Init /\ [][NextLong]_vars

\* C17: a FunctionCallEvent file is first written with success 0, and its
\* success is changed only from 0 (so at most once), only at the
\* events_updated step, and only in the turn whose batch number is one more
\* than the event's.
C17_SuccessBackfill ==
    [][\A f \in eventFiles' :
        IsCall(f.item)
        => /\ (\A g \in eventFiles : g.name # f.name) => f.item.success = 0
           /\ \A g \in eventFiles :
                (g.name = f.name /\ g.item.success # f.item.success)
                => /\ pc = "update"
                   /\ g.item.success = 0
                   /\ gs.action_batch_number = g.item.batch_number + 1]_vars

-----------------------------------------------------------------------------
(* Properties of the stored events *)

StoredCalls == {f.item : f \in {g \in eventFiles : IsCall(g.item)}}

StoredResults == {f.item : f \in {g \in eventFiles : g.item.type = "call_result"}}

\* The stored calls a result can be the result of: the id it names, the same
\* batch, and a timestamp that is not later.
CallsOf(result) ==
    {c \in StoredCalls :
        /\ c.id = result.function_call_id
        /\ c.batch_number = result.batch_number
        /\ ~LexLess(format_timestamp(result.timestamp), format_timestamp(c.timestamp))}

ResultsOf(call_id, batch_number) ==
    {r \in StoredResults :
        r.function_call_id = call_id /\ r.batch_number = batch_number}

\* C18: when a turn has been archived, every stored CallResultEvent names
\* exactly one stored FunctionCallEvent of its batch that is not later than
\* it, and every call event the turn created has exactly one stored result.
C18_ResultPairing ==
    TurnArchived
    => /\ \A r \in StoredResults : Cardinality(CallsOf(r)) = 1
       /\ \A i \in DOMAIN hist.record.action_event :
            Cardinality(ResultsOf(hist.record.action_event[i].id,
                                  hist.record.action_event[i].batch_number)) = 1

\* An archived turn that was killed and restarted and made two calls, with a
\* call of an earlier turn stored under the same id as one of them.
C18_Witness ==
    /\ TurnArchived
    /\ hist.kills = 1
    /\ Len(hist.record.action_event) = 2
    /\ Cardinality(StoredResults) >= 3
    /\ \E c1, c2 \in StoredCalls : c1.id = c2.id /\ c1.batch_number # c2.batch_number

\* The fields of an event record that nothing may change.
FixedFields(e) ==
    <<e.type, e.id, e.timestamp, e.batch_number, e.goal_id, e.function_call_id, e.content>>

\* C19: a step leaves id, timestamp, batch_number, goal_id, function_call_id
\* and content of every stored event as they were written, whichever file the
\* step writes the event to; summary changes only in results and
\* notifications, success only in calls, and both only at the step that runs
\* update_new_events.
C19_EventImmutability ==
    [][\A g \in eventFiles :
        /\ \E f \in eventFiles' : f.name = g.name
        /\ \A f \in eventFiles' :
            SameItem(f.item, g.item)
            => /\ FixedFields(f.item) = FixedFields(g.item)
               /\ f.item.summary # g.item.summary => (pc = "update" /\ ~IsCall(g.item))
               /\ f.item.success # g.item.success => (pc = "update" /\ IsCall(g.item))]_vars

\* C20: no step writes to an existing path of data/events or data/goals a
\* record that differs from the one the path holds.
C20_NoInPlaceMutation ==
    [][/\ \A g \in eventFiles : \A f \in eventFiles' : f.name = g.name => f.item = g.item
       /\ \A g \in goalFiles : \A f \in goalFiles' : f.name = g.name => f.item = g.item]_vars

-----------------------------------------------------------------------------
(* Properties of the call loop *)

\* C21: a call is invoked only in the call loop, one call per step, when no
\* result is stored for it and a result is stored for every call listed before
\* it, and its result is stored by the same step; when the loop is over, also
\* after a kill with some results stored, every call of the batch has been
\* invoked exactly once.
C21_SequentialCalls ==
    /\ [][\A i \in 1..MaxCalls :
            hist'.invoked[i] > hist.invoked[i]
            => /\ pc = "calls" /\ i <= NumCalls
               /\ ~HasResult(i)
               /\ \A j \in 1..(i - 1) : HasResult(j)
               /\ hist'.invoked[i] = hist.invoked[i] + 1
               /\ \A j \in 1..MaxCalls : j # i => hist'.invoked[j] = hist.invoked[j]
               /\ HasResult(i)']_vars
    /\ [](pc = "result_events" => \A i \in 1..NumCalls : hist.invoked[i] = 1)

\* The call loop is over in a turn that was killed with the result of the
\* first of two calls stored.
C21_Witness ==
    /\ pc = "result_events"
    /\ NumCalls = 2
    /\ hist.kill_results = 1
    /\ hist.invoked[1] = 1 /\ hist.invoked[2] = 1

-----------------------------------------------------------------------------
(* Properties of the global-state file *)

\* C22: a step changes a field of the global-state file only when it runs the
\* mutator of that field (generate_id for last_id, add_goal for
\* focused_goal_id, increment_action_number for action_batch_number), and then
\* to the value the mutator computes from the value the file held; every other
\* field of the file stays as it was.
C22_NoLostUpdate ==
    [][/\ gsFile'.action_batch_number # gsFile.action_batch_number
            => /\ pc = "increment"
               /\ gsFile'.action_batch_number = gsFile.action_batch_number + 1
       /\ gsFile'.last_id # gsFile.last_id
            => /\ pc \in {"notify", "call_events", "calls", "result_events"}
               /\ gsFile'.last_id > gsFile.last_id
       /\ gsFile'.focused_goal_id # gsFile.focused_goal_id
            => /\ pc = "calls"
               /\ gsFile'.focused_goal_id = gsFile'.last_id]_vars

-----------------------------------------------------------------------------
(* Feed.format on arbitrary event directories *)

\* The events of a directory with goal_id set to the goal.
WithGoal(dir, goal) == {[f EXCEPT !.item.goal_id = goal] : f \in dir}

InitFormat ==
    /\ EngineInit
    /\ pc = "idle"
    /\ text = <<>>
    /\ extracted = NotExtracted
    /\ feedIn = NoFeed
    /\ feedOut = <<>>
    /\ fnIn \in [dir : {WithGoal(dir, goal) : dir \in FeedDirs, goal \in 0..1},
                 focused_goal : 0..2]
    /\ fnOut = <<>>

Format ==
    /\ pc = "idle"
    /\ fnOut' = feed_format(fnIn.dir, fnIn.focused_goal)
    /\ pc' = "formatted"
    /\ UNCHANGED <<clock, gsFile, runFile, archives, eventFiles, goalFiles, cfg, gs,
                   loc, hist, crashes, text, extracted, feedIn, feedOut, fnIn>>

NextFormat == Format

SpecFormat == InitFormat /\ [][NextFormat]_vars

\* The events of a directory, and those of its k most recent batches.
AllEvents(dir) == Range(ById(dir))

InBatches(dir, k) == Range(EventsOfBatches(dir, k))

\* How the visibility rule renders an event.
Visibility(e, dir, focused_goal) ==
    IF e \in InBatches(dir, 1) \/ (focused_goal = NoId /\ e \in InBatches(dir, 3))
    THEN "full"
    ELSE IF e \notin InBatches(dir, 3) /\ (focused_goal = NoId \/ e.goal_id # focused_goal)
    THEN "omitted"
    ELSE "abbreviated"

Visible(dir, focused_goal) ==
    {[event |-> e, content |-> Visibility(e, dir, focused_goal)] :
        e \in {d \in AllEvents(dir) : Visibility(d, dir, focused_goal) # "omitted"}}

\* No event of the directory is older than every call event.
StartsWithCall(dir) ==
    \A f \in dir : \E g \in dir : IsCall(g.item) /\ ~LexLess(f.name, g.name)

\* C23: for a directory that starts with a call event and whose events are
\* within the budget, Feed.format returns, and renders every event as the
\* visibility rule says: in full in the most recent batch, and without focused
\* goal in the last 3 batches; otherwise abbreviated, or left out when it is
\* more than 3 batches old and not of the focused goal.
C23_VisibilityRule ==
    (/\ pc = "formatted"
     /\ fnIn.dir # {} /\ StartsWithCall(fnIn.dir)
     /\ count_tokens(Cardinality(fnIn.dir)) <= MAX_RECENT_FEED_TOKENS)
    => /\ ~fnOut.raised
       /\ Range(fnOut.events) = Visible(fnIn.dir, fnIn.focused_goal)

\* The number of most recent batches whose events together are within budget.
FittingBatches(dir) ==
    CHOOSE k \in 0..Cardinality(ActionBatches(dir)) :
        /\ k > 0 => count_tokens(Len(EventsOfBatches(dir, k))) <= MAX_RECENT_FEED_TOKENS
        /\ k < Cardinality(ActionBatches(dir))
            => count_tokens(Len(EventsOfBatches(dir, k + 1))) > MAX_RECENT_FEED_TOKENS

\* C24: without focused goal, when the most recent batch is within the budget
\* and the whole directory is not, Feed.format does not raise and returns the
\* events of the most recent batches that fit together, whole batches only.
C24_BudgetRollback ==
    (/\ pc = "formatted"
     /\ fnIn.focused_goal = NoId
     /\ fnIn.dir # {} /\ StartsWithCall(fnIn.dir)
     /\ count_tokens(Len(EventsOfBatches(fnIn.dir, 1))) <= MAX_RECENT_FEED_TOKENS
     /\ count_tokens(Cardinality(fnIn.dir)) > MAX_RECENT_FEED_TOKENS)
    => /\ ~fnOut.raised
       /\ {r.event : r \in Range(fnOut.events)}
            = InBatches(fnIn.dir, FittingBatches(fnIn.dir))

-----------------------------------------------------------------------------
(* Properties of the query step *)

NewestBatchOverBudget(dir) ==
    /\ ActionBatches(dir) # {}
    /\ count_tokens(Len(EventsOfBatches(dir, 1))) > MAX_RECENT_FEED_TOKENS

\* C25: when the turn has no stored output and the events of the most recent
\* batch alone are over the budget, Feed.format raises, and the step ends the
\* run without a query of the model and without a stored output.
C25_BudgetOverflow ==
    [][(/\ pc = "output"
        /\ ~Truthy(runFile, "output")
        /\ NewestBatchOverBudget(eventFiles))
       => /\ feed_format_raises(eventFiles, cfg.focused_goal_id)
          /\ pc' \in {"failed", "idle"}
          /\ hist'.queries = hist.queries
          /\ runFile' = runFile]_vars

\* A run that failed at the feed, without focused goal, with the most recent
\* batch over the budget and no query made.
C25_Witness ==
    /\ pc = "failed"
    /\ hist.failure = "feed"
    /\ cfg.focused_goal_id = NoId
    /\ NewestBatchOverBudget(eventFiles)
    /\ hist.queries = 0
    /\ ~Truthy(runFile, "output")

UnknownKinds == {"unknown_system", "unknown_function"}

CallableRaises == {"raises", "unimplemented"}

CallFailed == pc = "failed" /\ hist.error # NoError

-----------------------------------------------------------------------------
(* The rendering of the goals *)

\* The ceiling of Goals.format on the number of goals it renders.
MAX_GOALS_SHOWN == 10

\* repr of a goal, as one item of a list: the details in full.
full_itemized_repr(goal) == [goal |-> goal, details |-> "full"]

\* str of a goal, as one item of a list: the details collapsed.
short_itemized_repr(goal) == [goal |-> goal, details |-> "[Collapsed]"]

NoRendering == [raised |-> FALSE, why |-> "", none |-> TRUE, lines |-> <<>>]

GoalsRaise(why) == [raised |-> TRUE, why |-> why, none |-> FALSE, lines |-> <<>>]

GoalLines(lines) == [raised |-> FALSE, why |-> "", none |-> FALSE, lines |-> lines]

\* A rendering that leaves the orphaned goals out.
goals_format_dropping(goals_files, focused) ==
    IF goals_files = <<>> THEN NoRendering
    ELSE LET ordered_goals == reorder_goals(goals_files).new_list
         IN  GoalLines([i \in DOMAIN ordered_goals |->
                          IF ordered_goals[i].id = focused
                          THEN full_itemized_repr(ordered_goals[i])
                          ELSE short_itemized_repr(ordered_goals[i])])

\* Goals.format, on the goals of the files in the order of their names.
goals_format(goals_files, focused) ==
    IF goals_files = <<>> THEN NoRendering
    ELSE IF Len(goals_files) = 1 /\ goals_files[1].id = focused
    THEN GoalLines(<<full_itemized_repr(goals_files[1])>>)
    ELSE LET reordered == reorder_goals(goals_files)
             ordered_goals == reordered.new_list
         IN  IF reordered.orphaned # <<>> THEN GoalsRaise("orphaned goals")
             ELSE IF Len(ordered_goals) > MAX_GOALS_SHOWN THEN GoalsRaise("more than 10 goals")
             ELSE GoalLines([i \in DOMAIN ordered_goals |->
                               IF ordered_goals[i].id = focused
                               THEN full_itemized_repr(ordered_goals[i])
                               ELSE short_itemized_repr(ordered_goals[i])])

InitRender ==
    /\ EngineInit
    /\ pc = "idle"
    /\ text = <<>>
    /\ extracted = NotExtracted
    /\ feedIn = NoFeed
    /\ feedOut = <<>>
    /\ fnIn \in [goals : GoalLists, focused : 0..MaxGoals]
    /\ fnOut = <<>>

Render ==
    /\ pc = "idle"
    /\ fnOut' = goals_format(fnIn.goals, fnIn.focused)
    /\ pc' = "rendered"
    /\ UNCHANGED <<clock, gsFile, runFile, archives, eventFiles, goalFiles, cfg, gs,
                   loc, hist, crashes, text, extracted, feedIn, feedOut, fnIn>>

NextRender == Render

SpecRender == InitRender /\ [][NextRender]_vars

\* Every goal of the list has a chain of parents inside the list that ends at
\* a root.
NoOrphans(list) == \A i \in DOMAIN list : ReachesRoot(list, list[i], Len(list))

LinesOf(goal) == {i \in DOMAIN fnOut.lines : fnOut.lines[i].goal = goal}

\* C26: for 1 to 10 goals of which each has a chain of parents that ends at a
\* root, Goals.format raises nothing and renders each goal on exactly one
\* line, after the line of its parent, the focused goal in full and every
\* other goal with its details collapsed (all of them when no goal is
\* focused); without goals it returns None, which the turn prints as "None".
C26_GoalTreeRendering ==
    pc = "rendered" =>
        /\ fnIn.goals = <<>> => fnOut.none
        /\ (/\ Len(fnIn.goals) \in 1..MAX_GOALS_SHOWN
            /\ NoOrphans(fnIn.goals))
           => /\ ~fnOut.raised /\ ~fnOut.none
              /\ \A g \in Range(fnIn.goals) : Cardinality(LinesOf(g)) = 1
              /\ Len(fnOut.lines) = Len(fnIn.goals)
              /\ \A i, j \in DOMAIN fnOut.lines :
                    fnOut.lines[i].goal.parent_goal_id = fnOut.lines[j].goal.id => j < i
              /\ \A i \in DOMAIN fnOut.lines :
                    fnOut.lines[i].details =
                        (IF fnOut.lines[i].goal.id = fnIn.focused THEN "full" ELSE "[Collapsed]")

Reordered(goals, focused) ==
    goals # <<>> /\ ~(Len(goals) = 1 /\ goals[1].id = focused)

\* C30: whenever the reorder_goals of Goals.format puts a goal in the orphaned
\* list, Goals.format raises; a rendering it returns has a line for every
\* stored goal, and it returns None only when no goal is stored.
C30_OrphansReported ==
    pc = "rendered" =>
        /\ (/\ Reordered(fnIn.goals, fnIn.focused)
            /\ reorder_goals(fnIn.goals).orphaned # <<>>)
           => fnOut.raised /\ fnOut.why = "orphaned goals"
        /\ (~fnOut.raised /\ ~fnOut.none)
           => {fnOut.lines[i].goal : i \in DOMAIN fnOut.lines} = Range(fnIn.goals)
        /\ fnOut.none => fnIn.goals = <<>>

\* Three goals, the focused one a root, another with a parent that no goal
\* has: the rendering is refused.
C30_Witness ==
    /\ pc = "rendered"
    /\ Len(fnIn.goals) = 3
    /\ fnIn.goals[1].parent_goal_id = NoId /\ fnIn.goals[1].id = fnIn.focused
    /\ fnIn.goals[2].parent_goal_id = fnIn.goals[1].id
    /\ ~InList(fnIn.goals, fnIn.goals[3].parent_goal_id)
    /\ fnOut.raised

-----------------------------------------------------------------------------
(* The goal functions *)

\* read_goal: from_mapping puts the timestamp through format_timestamp.
read_goal(f) == [f.item EXCEPT !.timestamp = format_timestamp(@)]

\* The goal that add_goal builds from its parent_goal_id argument.
SubGoal(id, ts, batch, summary, parent_goal_id) ==
    [Goal(id, ts, batch, summary) EXCEPT !.parent_goal_id = parent_goal_id]

\* The ids a call may name for a parent: none, a goal's, or one no goal has.
ParentIds == 0..(MaxGoals + 1)

InitStore ==
    /\ EngineInit
    /\ text = <<>>
    /\ extracted = NotExtracted
    /\ feedIn = NoFeed
    /\ feedOut = <<>>
    /\ fnIn = <<>>
    /\ fnOut = <<>>

\* GOALS.add_goal(summary, details, parent_goal_id, switch_focus): the parent
\* is stored as it is given, and the body never reads switch_focus.
AddGoal ==
    /\ Cardinality(goalFiles) < MaxGoals
    /\ \E parent_goal_id \in ParentIds, switch_focus \in BOOLEAN :
        LET goal == SubGoal(generate_id(cfg), get_timestamp(clock),
                            cfg.action_batch_number, "test goal", parent_goal_id)
        IN  /\ goalFiles' = save_items(<<goal>>, goalFiles)
            /\ cfg' = set_global_state(AfterIds(cfg, 1), "focused_goal_id", goal.id)
            /\ fnIn' = [function |-> "add_goal", goal_id |-> goal.id,
                        parent_goal_id |-> parent_goal_id, switch_focus |-> switch_focus]
    /\ gsFile' = cfg'
    /\ clock' = clock + 1
    /\ fnOut' = "added"
    /\ UNCHANGED <<runFile, archives, eventFiles, pc, gs, loc, hist, crashes, text,
                   extracted, feedIn, feedOut>>

\* GOALS.edit_goal(goal_id, None, None, new_parent_goal_id): find_goal takes a
\* file of that id, the new parent replaces the old one unless it is None,
\* and the goal is saved under the name of its timestamp.
EditGoal ==
    /\ \E goal_id \in 1..MaxGoals, new_parent_goal_id \in ParentIds :
        /\ fnIn' = [function |-> "edit_goal", goal_id |-> goal_id,
                    parent_goal_id |-> new_parent_goal_id]
        /\ IF \E f \in goalFiles : f.item.id = goal_id
           THEN \E f \in goalFiles :
                    /\ f.item.id = goal_id
                    /\ goalFiles' =
                         save_items(<<[read_goal(f) EXCEPT !.parent_goal_id =
                                         IF new_parent_goal_id # NoId
                                         THEN new_parent_goal_id ELSE @]>>, goalFiles)
                    /\ fnOut' = "updated"
           ELSE /\ goalFiles' = goalFiles
                /\ fnOut' = "StopIteration"
    /\ UNCHANGED <<clock, gsFile, runFile, archives, eventFiles, pc, cfg, gs, loc, hist,
                   crashes, text, extracted, feedIn, feedOut>>

NextStore == AddGoal \/ EditGoal

SpecStore == InitStore /\ [][NextStore]_vars

\* Following parent_goal_id from the goal for at most n steps, through the
\* stored goals, ends at a root.
RECURSIVE RootWithin(_, _, _)
RootWithin(dir, goal, n) ==
    \/ goal.parent_goal_id = NoId
    \/ /\ n > 0
       /\ \E h \in dir : /\ h.item.id = goal.parent_goal_id
                         /\ RootWithin(dir, h.item, n - 1)

\* C29: after any sequence of add_goal and edit_goal, the parent_goal_id of
\* every stored goal is None or the id of a stored goal, and the chain of
\* parents of every goal ends at a root.
C29_GoalsForest ==
    \A f \in goalFiles :
        /\ f.item.parent_goal_id = NoId
           \/ \E h \in goalFiles : h.item.id = f.item.parent_goal_id
        /\ RootWithin(goalFiles, f.item, Cardinality(goalFiles))

-----------------------------------------------------------------------------
(* Properties of a single driver *)

\* C28, for one run_mind process at a time: no turn queries the model twice
\* or invokes a call of its batch twice, and no write of the global state
\* file takes back an update of last_id or action_batch_number that the file
\* already held.
C28_SingleDriver ==
    [][/\ hist'.queries <= 1
       /\ \A i \in DOMAIN hist'.invoked : hist'.invoked[i] <= 1
       /\ gsFile'.last_id >= gsFile.last_id
       /\ gsFile'.action_batch_number >= gsFile.action_batch_number]_vars

\* C31: a call of add_goal with switch_focus = True sets the focused_goal_id
\* of the global state, in memory and in the file, to the id of the new goal;
\* with switch_focus = False it leaves focused_goal_id as it was; in both
\* cases every goal file that existed is still there with the same content.
C31_FocusSwitch ==
    [][fnIn'.function = "add_goal" /\ clock' # clock
       => /\ fnIn'.switch_focus
             => /\ cfg'.focused_goal_id = fnIn'.goal_id
                /\ gsFile'.focused_goal_id = fnIn'.goal_id
          /\ ~fnIn'.switch_focus
             => /\ cfg'.focused_goal_id = cfg.focused_goal_id
                /\ gsFile'.focused_goal_id = gsFile.focused_goal_id
          /\ goalFiles \subseteq goalFiles'
          /\ Cardinality(goalFiles') = Cardinality(goalFiles) + 1]_vars

\* C32: without focused goal and within the budget, Feed.format returns an
\* empty result only for an empty directory, and every event of the most
\* recent batch, a Notification stored before any FunctionCallEvent included,
\* is in the text returned.
C32_FeedCoversNewest ==
    (/\ pc = "formatted"
     /\ fnIn.focused_goal = NoId
     /\ count_tokens(Cardinality(fnIn.dir)) <= MAX_RECENT_FEED_TOKENS)
    => /\ ~fnOut.raised
       /\ fnOut.events = <<>> => fnIn.dir = {}
       /\ InBatches(fnIn.dir, 1) \subseteq {r.event : r \in Range(fnOut.events)}

-----------------------------------------------------------------------------
(* The file names of saved items *)

\* The items a directory is given in this specification.
MaxItems == 4

NoSaves == [saved |-> {}, shared |-> FALSE]

InitSave ==
    /\ EngineInit
    /\ text = <<>>
    /\ extracted = NotExtracted
    /\ feedIn = NoFeed
    /\ feedOut = <<>>
    /\ fnIn = <<>>
    /\ fnOut = NoSaves

\* The system clock moves on by one unit of its resolution.
Tick ==
    /\ clock < MaxTick
    /\ clock' = clock + 1
    /\ UNCHANGED <<gsFile, runFile, archives, eventFiles, goalFiles, pc, cfg, gs, loc,
                   hist, crashes, text, extracted, feedIn, feedOut, fnIn, fnOut>>

\* One element of the list of run_mind, lines 843-853: generate_id, then
\* get_timestamp, which reads the clock as it stands.
NewItem ==
    /\ cfg.last_id < MaxItems
    /\ fnIn' = Append(fnIn, FunctionCallEvent(generate_id(cfg),
                                               format_timestamp(get_timestamp(clock)),
                                               cfg.action_batch_number, NoId,
                                               "call_summary", <<"sleep", 0>>))
    /\ cfg' = AfterIds(cfg, 1)
    /\ gsFile' = cfg'
    /\ UNCHANGED <<clock, runFile, archives, eventFiles, goalFiles, pc, gs, loc, hist,
                   crashes, text, extracted, feedIn, feedOut, fnOut>>

\* Two files of the list have the same name and items of different ids, or a
\* file of the list has the name of a stored file with another id.
SharesFile(items, dir) ==
    \/ \E i, j \in DOMAIN items :
        /\ items[i].id # items[j].id
        /\ ItemFile(items[i].timestamp) = ItemFile(items[j].timestamp)
    \/ \E i \in DOMAIN items : \E f \in dir :
        /\ f.name = ItemFile(items[i].timestamp)
        /\ f.item.id # items[i].id

\* save_events(new_events), run_mind line 883.
SaveEvents ==
    /\ fnIn # <<>>
    /\ eventFiles' = save_items(fnIn, eventFiles)
    /\ fnOut' = [saved |-> fnOut.saved \cup {fnIn[i].id : i \in DOMAIN fnIn},
                 shared |-> fnOut.shared \/ SharesFile(fnIn, eventFiles)]
    /\ fnIn' = <<>>
    /\ UNCHANGED <<clock, gsFile, runFile, archives, goalFiles, pc, cfg, gs, loc, hist,
                   crashes, text, extracted, feedIn, feedOut>>

NextSave == Tick \/ NewItem \/ SaveEvents

SpecSave == InitSave /\ [][NextSave]_vars

\* C33: no save writes two items of different ids to one file name, in one
\* list or in different lists, so that the directory holds one file for every
\* item that was saved.
C33_DistinctFiles ==
    /\ ~fnOut.shared
    /\ Cardinality(eventFiles) = Cardinality(fnOut.saved)

-----------------------------------------------------------------------------
(* Properties of the save of the new events *)

C35_BackfillEarlierOnly ==
    runFile.exists => hist.backfilled \cap FileNames(NewEvents(runFile)) = {}

-----------------------------------------------------------------------------
(* Properties of the stored results *)

HasOutput(rs) == rs.exists /\ "output" \in rs.keys /\ rs.output.text # <<>>

\* C36: once an output that is not empty is stored, no step of the turn, in
\* this process or after a restart, queries the model or changes the stored
\* output; and once such an output has failed extraction, every restart of
\* the turn stops at extraction again: the turn gets no further and is never
\* archived.
C36_StoredOutputFinal ==
    [][/\ (HasOutput(runFile) /\ runFile'.exists)
          => /\ hist'.queries = hist.queries
             /\ runFile'.output = runFile.output
       /\ hist.stuck
          => /\ archives' = archives
             /\ runFile'.exists
             /\ pc' \in {"idle", "failed", "messages", "output", "extract"}]_vars

\* A turn whose stored output failed extraction was restarted and has failed
\* at extraction again, with one query in all.
C36_Witness ==
    /\ pc = "failed"
    /\ hist.stuck
    /\ hist.failures = 2
    /\ hist.failure \in {"extraction", "parsing"}
    /\ hist.queries = 1

\* C37: a step whose result is in the run-state file is not executed again,
\* an empty result included: with new_messages stored there is no further
\* download, with an output stored no further query, with the call events
\* stored no further generation of call events.
C37_EmptyMemoized ==
    [][(runFile.exists /\ runFile'.exists)
       => /\ "new_messages" \in runFile.keys => hist'.downloads = hist.downloads
          /\ "output" \in runFile.keys => hist'.queries = hist.queries
          /\ "action_event" \in runFile.keys => "action_event" \notin hist'.reexec]_vars

-----------------------------------------------------------------------------
(* Properties of the ordered goals *)

\* The goal at position i of the list has the goal of this id among its
\* ancestors, at most n parents up.
RECURSIVE DescendsFrom(_, _, _, _)
DescendsFrom(list, i, id, n) ==
    /\ n > 0
    /\ list[i].parent_goal_id # NoId
    /\ \/ list[i].parent_goal_id = id
       \/ /\ InList(list, list[i].parent_goal_id)
          /\ DescendsFrom(list, PositionOf(list, list[i].parent_goal_id), id, n - 1)

DescendantPositions(list, p) ==
    {i \in DOMAIN list : DescendsFrom(list, i, list[p].id, Len(list))}

\* The depth that the recursion of find_last_descendant_index reaches on the
\* list from this id, counted up to n.
RECURSIVE ScanDepth(_, _, _)
ScanDepth(list, id, n) ==
    IF n = 0 THEN 0
    ELSE LET depths == {ScanDepth(list, list[i].id, n - 1) :
                            i \in {j \in DOMAIN list : list[j].parent_goal_id = id}}
         IN  1 + (IF depths = {} THEN 0
                  ELSE CHOOSE d \in depths : \A e \in depths : e <= d)

\* C38: for every list of goals with distinct ids, cyclic and self-referring
\* parents included, reorder_goals returns (the recursion over the ordered
\* list is no deeper than the list is long), every goal of the input is in
\* exactly one place of the ordered list or of the orphaned list, and in the
\* ordered list the descendants of a goal are the goals right after it.
C38_ReorderPartition ==
    pc = "reordered" =>
        /\ \A id \in 1..(MaxGoals + 1) :
             ScanDepth(fnOut.new_list, id, Len(fnIn) + 2) <= Len(fnIn) + 1
        /\ Len(fnOut.new_list) + Len(fnOut.orphaned) = Len(fnIn)
        /\ Range(fnOut.new_list) \cup Range(fnOut.orphaned) = Range(fnIn)
        /\ \A p \in DOMAIN fnOut.new_list :
             DescendantPositions(fnOut.new_list, p)
               = (p + 1)..(p + Cardinality(DescendantPositions(fnOut.new_list, p)))

\* A root, a goal that is its own parent and a child of the root, listed in
\* this order: the second is orphaned, the third is the block of the first.
C38_Witness ==
    /\ pc = "reordered"
    /\ Len(fnIn) = 3
    /\ fnIn[1].parent_goal_id = NoId
    /\ fnIn[2].parent_goal_id = fnIn[2].id
    /\ fnIn[3].parent_goal_id = fnIn[1].id
    /\ fnOut.orphaned = <<fnIn[2]>>
    /\ DescendantPositions(fnOut.new_list, 1) = {2}

-----------------------------------------------------------------------------
(* Batch numbers of the recorded events *)

\* The event files of the current turn: the names the directory did not have
\* when the turn began.
TurnFiles == {f \in eventFiles : \A g \in hist.start.events : g.name # f.name}

\* C39: a call event or a result event written by a turn carries the
\* action_batch_number the turn's invocations read at their start, in the
\* run-state file and in the events directory; the new-message notification
\* carries that number minus 1; when a turn has been archived every stored
\* event has a batch number below the action_batch_number of the file.
C39_EventBatchNumbers ==
    /\ runFile.exists
         => /\ \A i \in DOMAIN runFile.action_event :
                 runFile.action_event[i].batch_number
                   = hist.start.gs.action_batch_number
            /\ \A i \in DOMAIN runFile.call_result_event :
                 runFile.call_result_event[i].batch_number
                   = hist.start.gs.action_batch_number
    /\ \A f \in TurnFiles :
         f.item.batch_number = IF f.item.type = "notification"
                               THEN hist.start.gs.action_batch_number - 1
                               ELSE hist.start.gs.action_batch_number
    /\ TurnArchived
         => \A f \in eventFiles : f.item.batch_number < gsFile.action_batch_number

\* A turn with a new message and a call, killed in the call loop, restarted
\* and archived: the notification, the call event made before the kill and the
\* result event made after it are stored.
C39_Witness ==
    /\ TurnArchived
    /\ hist.kill_results >= 0
    /\ \E n, c, r \in TurnFiles :
         /\ n.item.type = "notification"
         /\ IsCall(c.item)
         /\ r.item.type = "call_result" /\ r.item.function_call_id = c.item.id

-----------------------------------------------------------------------------
(* The result of each call *)

\* C40: the stored results are in the order of the calls, in every process of
\* the turn; the result event that names the i-th call event has as content
\* what the i-th call returned, in the run-state file and, when the turn has
\* been archived, in the events directory.
C40_ResultOfCall ==
    /\ runFile.exists
         => /\ Len(runFile.call_result) <= Len(runFile.action_event)
            /\ \A k \in DOMAIN runFile.call_result :
                 /\ runFile.call_result[k].id = runFile.action_event[k].id
                 /\ runFile.call_result[k].result = hist.returned[k]
            /\ \A i \in DOMAIN runFile.call_result_event :
                 /\ runFile.call_result_event[i].function_call_id
                      = runFile.action_event[i].id
                 /\ runFile.call_result_event[i].content = hist.returned[i]
    /\ TurnArchived
         => \A i \in DOMAIN hist.record.action_event :
              LET results == ResultsOf(hist.record.action_event[i].id,
                                       hist.record.action_event[i].batch_number)
              IN  /\ results # {}
                  /\ \A r \in results : r.content = hist.returned[i]

\* An archived turn of two calls that returned different values, killed in
\* the call loop after the first result was stored.
C40_Witness ==
    /\ TurnArchived
    /\ hist.kill_results = 1
    /\ Len(hist.record.action_event) = 2
    /\ hist.returned[1] # hist.returned[2]
    /\ \A i \in 1..2 :
         \E r \in StoredResults :
            /\ r.function_call_id = hist.record.action_event[i].id
            /\ r.content = hist.returned[i]

====
